---- MODULE Spec2Model ----
(***************************************************************************)
(* The evaluation engine of the Brainrot interpreter as a state machine.   *)
(*                                                                         *)
(* The machine is the C program at the granularity of its function calls:  *)
(* kont is the C call stack (one frame per active C function, the last     *)
(* element is the running one), acc is the value the last returned         *)
(* function handed to its caller.  The globals keep their source names:    *)
(* the chain reachable from current_scope is scopes (the last element is   *)
(* current_scope, the element before it its parent), jump_buffer is the    *)
(* stack of jmp_bufs, function_map the function table and                  *)
(* current_return_value the return slot.                                   *)
(*                                                                         *)
(* Source set: src/ast.c (scopes, functions, expression evaluation, the    *)
(* statement executor used for case bodies), src/unnamed/part_001 (the     *)
(* ast_accept that goes with it) and src/unnamed/part_006 (the visitor     *)
(* interpreter that drives everything else).                               *)
(***************************************************************************)
EXTENDS Integers, Sequences, FiniteSets, TLC

\* Largest trip count of a generated loop.
MaxIter == 2

\* Largest extent of a dimension of the arrays of SpecArr; also bounds the
\* index values tried (from -1 up to the bound).
MaxExtent == 4

\* Number of accesses one run of SpecArr makes.
MaxAccess == 2

VARIABLES
    prog,                 \* the source program being run (fixed after Init)
    status,               \* "run", "done" (normal end), "exit" (exit()/ragequit), "crash"
    kont,                 \* C call stack
    acc,                  \* value returned by the last C function that returned
    scopes,               \* scope chain, current_scope last
    next_scope,           \* identity of the next Scope allocation
    jump_buffer,          \* stack of jump buffers, top last
    function_map,         \* function name -> Function
    current_return_value, \* [type, has_value, value]
    checked,              \* identifier nodes whose already_checked/is_valid_symbol are set
    log                   \* observable and ghost events, oldest first

vars == <<prog, status, kont, acc, scopes, next_scope, jump_buffer,
          function_map, current_return_value, checked, log>>

----------------------------------------------------------------------------
(* AST nodes, as the create_*_node constructors build them. *)

NoNode == [t |-> "null"]
Lit(v) == [t |-> "int", v |-> v]
Id(name, id) == [t |-> "id", name |-> name, id |-> id]
Bin(op, l, r) == [t |-> "op", op |-> op, l |-> l, r |-> r]
Call(f, args) == [t |-> "call", f |-> f, args |-> args]
List(ss) == [t |-> "list", ss |-> ss]
Decl(name, vt, isc, e) ==
    [t |-> "decl", name |-> name, vt |-> vt, is_const |-> isc, e |-> e]
Assign(name, e) == [t |-> "assign", name |-> name, is_const |-> FALSE, e |-> e]
If(c, th, el) == [t |-> "if", c |-> c, th |-> th, el |-> el]
For(init, c, incr, body) ==
    [t |-> "for", init |-> init, c |-> c, incr |-> incr, body |-> body]
While(c, body) == [t |-> "while", c |-> c, body |-> body]
DoWhile(c, body) == [t |-> "dowhile", c |-> c, body |-> body]
Case(v, ss) == [v |-> v, ss |-> ss]
Switch(e, cases) == [t |-> "switch", e |-> e, cases |-> cases]
\* after: the marker printed by the statement that follows the innermost
\* loop or switch around the break (not a field of the C node).
Break(after) == [t |-> "break", after |-> after]
Return(e) == [t |-> "return", e |-> e]
Param(name, type, pos) ==
    [name |-> name, type |-> type, is_const |-> FALSE, pos |-> pos]
FDef(name, rt, params, body) ==
    [t |-> "fdef", name |-> name, rt |-> rt, params |-> params, body |-> body]
Yapping(e) == [t |-> "print", e |-> e]

\* A marker statement: prints the literal v.
P(v) == Yapping(Lit(v))

----------------------------------------------------------------------------
(* The machine state as one record, and its installation. *)

State ==
    [status |-> status, kont |-> kont, acc |-> acc, scopes |-> scopes,
     next_scope |-> next_scope, jump_buffer |-> jump_buffer,
     function_map |-> function_map,
     current_return_value |-> current_return_value,
     checked |-> checked, log |-> log]

Install(s) ==
    /\ status' = s.status
    /\ kont' = s.kont
    /\ acc' = s.acc
    /\ scopes' = s.scopes
    /\ next_scope' = s.next_scope
    /\ jump_buffer' = s.jump_buffer
    /\ function_map' = s.function_map
    /\ current_return_value' = s.current_return_value
    /\ checked' = s.checked
    /\ log' = s.log
    /\ prog' = prog

Top(s) == s.kont[Len(s.kont)]
SetTop(s, f) == [s EXCEPT !.kont[Len(s.kont)] = f]
\* The running function calls another: its own frame becomes f, g goes on top.
CallC(s, f, g) == [s EXCEPT !.kont = Append(SubSeq(@, 1, Len(@) - 1), f) \o <<g>>]
\* The running function returns v to its caller.
ReturnC(s, v) == [s EXCEPT !.kont = SubSeq(@, 1, Len(@) - 1), !.acc = v]
Emit(s, e) == [s EXCEPT !.log = Append(@, e)]

\* The running function returns nothing.
ReturnV(s) == [s EXCEPT !.kont = SubSeq(@, 1, Len(@) - 1)]

\* A fresh activation of C function k on AST node n.  i, l, cp, av, m are its
\* locals (counter, saved operand, parameter cursor, argument values, flag).
Frame(k, n) ==
    [k |-> k, pc |-> "start", n |-> n, i |-> 0, l |-> 0, cp |-> "NULL",
     av |-> << >>, m |-> FALSE]

----------------------------------------------------------------------------
(* Values, scopes and variables. *)

\* exit(1), exit(EXIT_FAILURE) and ragequit(): the process ends at once.
ragequit(s) == [s EXCEPT !.status = "exit"]

\* A dereference of NULL or of freed storage that faults.
Crash(s) == [s EXCEPT !.status = "crash"]

\* yyerror() prints the message to stderr and returns.
yyerror(s, msg) == Emit(s, <<"error", msg>>)

\* The allocator hands out zeroed storage: what a constructor does not set
\* reads as 0/false.
SAFE_MALLOC(fields) == fields

create_scope(id) ==
    SAFE_MALLOC([id |-> id, is_function_scope |-> FALSE,
                 variables |-> << >>])

Names(scope) == DOMAIN scope.variables

enter_scope(s) ==
    [s EXCEPT !.scopes = Append(@, create_scope(s.next_scope)),
              !.next_scope = @ + 1]

exit_scope(s) ==
    IF s.status # "run" THEN s
    ELSE IF s.scopes = << >> THEN ragequit(yyerror(s, "No scope to exit"))
    ELSE [s EXCEPT !.scopes = SubSeq(@, 1, Len(@) - 1)]

\* Index in scs of the scope in which the search for name that starts at
\* scope i ends, 0 for NULL.
RECURSIVE get_variable(_, _, _)
get_variable(scs, i, name) ==
    IF i = 0 THEN 0
    ELSE IF name \in Names(scs[i]) THEN i
    ELSE IF scs[i].is_function_scope THEN 0
    ELSE get_variable(scs, i - 1, name)

\* get_variable(name) from current_scope.
Lookup(s, name) == get_variable(s.scopes, Len(s.scopes), name)

\* variable_new sets the name and is_array; the type tag reads as the first
\* VarType, VAR_INT, until it is set.
variable_new ==
    SAFE_MALLOC([var_type |-> "int", is_const |-> FALSE, is_array |-> FALSE,
                 value |-> 0, dimensions |-> << >>, array_data |-> << >>])

\* An insertion that replaces the entry of a name the scope already holds.
add_variable_replacing(s, name, var) ==
    IF s.status # "run" THEN s
    ELSE IF s.scopes = << >>
    THEN ragequit(yyerror(s, "No scope to add variable to"))
    ELSE [s EXCEPT !.scopes[Len(s.scopes)].variables = (name :> var) @@ @]

add_variable_to_scope(s, name, var) ==
    IF s.status # "run" THEN s
    ELSE IF s.scopes = << >>
    THEN ragequit(yyerror(s, "No scope to add variable to"))
    ELSE IF name \in Names(s.scopes[Len(s.scopes)])
    THEN ragequit(yyerror(s, "Variable already exists in current scope"))
    ELSE [s EXCEPT !.scopes[Len(s.scopes)].variables = (name :> var) @@ @]

\* set_int_variable(name, value, mods): the variable found from
\* current_scope takes the value, the type and the modifiers.
set_variable(s, name, value, type, is_const) ==
    LET i == Lookup(s, name) IN
    IF s.status # "run" THEN s
    ELSE IF i = 0 THEN yyerror(s, "Failed to set variable")
    ELSE [s EXCEPT !.scopes[i].variables[name] =
              [@ EXCEPT !.is_const = is_const, !.var_type = type,
                        !.value = value]]

is_const_variable(s, name) ==
    LET i == Lookup(s, name) IN
    IF i # 0 THEN s.scopes[i].variables[name].is_const ELSE FALSE

check_const_assignment(s, name) ==
    IF s.status # "run" THEN s
    ELSE IF is_const_variable(s, name)
    THEN ragequit(yyerror(s, "Cannot modify const variable"))
    ELSE s

\* Position in scs of the scope allocated as id, 0 when it has been freed.
ScopeAt(scs, id) ==
    IF \E i \in DOMAIN scs : scs[i].id = id
    THEN CHOOSE i \in DOMAIN scs : scs[i].id = id
    ELSE 0

\* *var = value through a Variable pointer taken earlier in scope id.  With
\* the scope freed in between the store goes to freed storage: it faults or
\* it is lost.
StoreThrough(s, id, name, value) ==
    LET i == ScopeAt(s.scopes, id) IN
    IF s.status # "run" THEN {s}
    ELSE IF i = 0 THEN {Crash(s), s}
    ELSE {[s EXCEPT !.scopes[i].variables[name].value = value]}

----------------------------------------------------------------------------
(* Jump buffers. *)

\* PUSH_JUMP_BUFFER(): a new buffer on top, not yet filled by setjmp.
PUSH_JUMP_BUFFER(s) ==
    [s EXCEPT !.jump_buffer =
        Append(@, [armed |-> FALSE, depth |-> Len(s.kont)])]

POP_JUMP_BUFFER(s) ==
    IF s.status # "run" THEN s
    ELSE [s EXCEPT !.jump_buffer = SubSeq(@, 1, Len(@) - 1)]

\* setjmp(CURRENT_JUMP_BUFFER()) returning 0 in the running function.
setjmp(s) ==
    [s EXCEPT !.jump_buffer[Len(s.jump_buffer)] =
        [armed |-> TRUE, depth |-> Len(s.kont)]]

\* The C stack is cut back to the function that called setjmp, which goes on
\* where setjmp returns nonzero.
Land(s, jb) ==
    [s EXCEPT !.kont = Append(SubSeq(@, 1, jb.depth - 1),
                              [@[jb.depth] EXCEPT !.pc = "jmp"])]

\* LONGJMP(): longjmp to the top buffer.  A buffer setjmp never filled holds
\* whatever its storage held: the jump faults, or, the storage being that of
\* an earlier run of the same statement, lands where that run called setjmp.
LONGJMP(s) ==
    IF s.status # "run" THEN {s}
    ELSE IF s.jump_buffer = << >>
    THEN {ragequit(yyerror(s, "Attempted longjmp with NULL jump_buffer"))}
    ELSE LET jb == s.jump_buffer[Len(s.jump_buffer)] IN
         IF jb.armed THEN {Land(s, jb)}
         ELSE {Crash(s), Land(s, jb)}

bruh(s) == LONGJMP(s)


----------------------------------------------------------------------------
(* The function table. *)

get_function(s, name) == name \in DOMAIN s.function_map

\* A table in which the latest definition of a name replaces the entry.
create_function_replace(s, name, return_type, params, body) ==
    [s EXCEPT !.function_map =
        [x \in DOMAIN @ \cup {name} |->
            IF x = name
            THEN [return_type |-> return_type, parameters |-> params,
                  body |-> body]
            ELSE @[x]]]

create_function(s, name, return_type, params, body) ==
    IF get_function(s, name) THEN s
    ELSE [s EXCEPT !.function_map =
             (name :> [return_type |-> return_type, parameters |-> params,
                       body |-> body]) @@ @]

reverse_parameter_list(params) ==
    IF params = << >> THEN << >>
    ELSE [i \in 1..Len(params) |-> params[Len(params) + 1 - i]]

\* The parameter list is linked: its nodes are named by their parameter.
\* head of the list, "NULL" for an empty one.
FirstParam(params) == IF params = << >> THEN "NULL" ELSE params[1].name

ParamIndex(params, name) == CHOOSE i \in DOMAIN params : params[i].name = name

\* curr_param->next in the list as it is linked now.
NextParam(params, name) ==
    LET i == ParamIndex(params, name) IN
    IF i = Len(params) THEN "NULL" ELSE params[i + 1].name

----------------------------------------------------------------------------
(* Expressions. *)

RECURSIVE get_expression_type(_, _)
get_expression_type(s, n) ==
    CASE n.t = "int" -> "int"
      [] n.t \in {"short", "float", "double"} -> n.t
      [] n.t = "id" ->
            LET i == Lookup(s, n.name) IN
            IF i # 0 THEN s.scopes[i].variables[n.name].var_type ELSE "none"
      [] n.t = "op" ->
            LET lt == get_expression_type(s, n.l)
                rt == get_expression_type(s, n.r) IN
            IF lt = "double" \/ rt = "double" THEN "double"
            ELSE IF lt = "float" \/ rt = "float" THEN "float"
            ELSE "int"
      [] n.t = "unary" -> get_expression_type(s, Id(n.name, 0))
      [] n.t = "call" ->
            IF get_function(s, n.f) THEN s.function_map[n.f].return_type
            ELSE "none"
      [] OTHER -> "none"

\* A promotion that takes the type of the left operand.
promoted_type_of_left(left_type, right_type) == left_type

\* The type handle_binary_operation evaluates both operands in.
promoted_type(left_type, right_type) ==
    IF left_type = "double" \/ right_type = "double" THEN "double"
    ELSE IF left_type = "float" \/ right_type = "float" THEN "float"
    ELSE IF left_type = "int" \/ right_type = "int" THEN "int"
    ELSE "short"

\* The operator switch of handle_binary_operation for promoted type int.
\* The sums of the programs run here stay far inside the range of int.
int_operation(op, left_value, right_value) ==
    CASE op = "+" -> left_value + right_value
      [] op = "-" -> left_value - right_value
      [] op = "<" -> IF left_value < right_value THEN 1 ELSE 0
      [] op = "==" -> IF left_value = right_value THEN 1 ELSE 0

Unary(op, name) == [t |-> "unary", op |-> op, name |-> name]

\* (double)i and (float)i
from_int(i) == 2 * i

\* (short)x
to_short(x) == ((x + 32768) % 65536) - 32768

Var(s, name) == s.scopes[Lookup(s, name)].variables[name]

Yield(s, value) == [s EXCEPT !.acc = value]

Increments == {"++x", "x++"}
UnaryOps == {"++x", "x++", "--x", "x--"}

\* handle_unary_expression for ++ and --: the operand's variable is set
\* through the setter of operand_type, which also sets the type tag.
handle_unary_expression(s, n, operand, operand_type) ==
    LET one == IF operand_type \in {"int", "short"} THEN 1 ELSE from_int(1)
        changed == IF n.op \in Increments THEN operand + one
                   ELSE operand - one
        stored == IF operand_type = "short" THEN to_short(changed)
                  ELSE changed
        result == IF n.op \in {"++x", "--x"} THEN stored ELSE operand IN
    Yield(set_variable(s, n.name, stored, operand_type,
                       Var(s, n.name).is_const), result)

\* Only a lookup that succeeds is kept on the node: one that fails ends the
\* run in every caller.
check_and_mark_identifier(s, n) ==
    IF n.id \in s.checked THEN s
    ELSE IF Lookup(s, n.name) # 0 THEN [s EXCEPT !.checked = @ \cup {n.id}]
    ELSE yyerror(s, "Undefined variable")

\* *(int *)handle_identifier(node, ..., 0)
handle_identifier(s, n) ==
    LET s1 == check_and_mark_identifier(s, n)
        i == Lookup(s1, n.name) IN
    IF n.id \notin s1.checked THEN ragequit(s1)
    ELSE IF i = 0 THEN Crash(yyerror(s1, "Undefined variable"))
    ELSE ReturnC(s1, s1.scopes[i].variables[n.name].value)

\* What evaluate_expression_int makes of handle_function_call's result.
handle_function_call(s) ==
    IF s.current_return_value.has_value
          /\ s.current_return_value.type = "int"
    THEN s.current_return_value.value
    ELSE 0

evaluate_expression_int(s) ==
    LET f == Top(s)
        n == f.n IN
    CASE n.t = "null" -> {ReturnC(s, 0)}
      [] n.t = "int" -> {ReturnC(s, n.v)}
      [] n.t = "id" -> {handle_identifier(s, n)}
      [] n.t = "op" /\ f.pc = "start" ->
            IF promoted_type(get_expression_type(s, n.l),
                             get_expression_type(s, n.r)) = "int"
            THEN {CallC(s, [f EXCEPT !.pc = "right"],
                        Frame("evaluate_expression_int", n.l))}
            ELSE {}
      [] n.t = "op" /\ f.pc = "right" ->
            {CallC(s, [f EXCEPT !.pc = "apply", !.l = s.acc],
                   Frame("evaluate_expression_int", n.r))}
      [] n.t = "op" /\ f.pc = "apply" ->
            {ReturnC(s, int_operation(n.op, f.l, s.acc))}
      [] n.t = "call" /\ f.pc = "start" ->
            {CallC(s, [f EXCEPT !.pc = "result"],
                   Frame("execute_function_call", n))}
      [] n.t = "call" /\ f.pc = "result" ->
            {ReturnC(s, handle_function_call(s))}
      \* The operand of a ++ or -- is the identifier node of its variable
      \* (node 0: the programs run here hold at most one such operand).
      [] n.t = "unary" /\ f.pc = "start" ->
            {CallC(s, [f EXCEPT !.pc = "apply"],
                   Frame("evaluate_expression_int", Id(n.name, 0)))}
      [] n.t = "unary" /\ f.pc = "apply" ->
            {ReturnV(handle_unary_expression(s, n, s.acc, "int"))}

is_expression(s, n, type) ==
    CASE n.t = "id" ->
            LET i == Lookup(s, n.name) IN
            i # 0 /\ s.scopes[i].variables[n.name].var_type = type
      [] n.t = "op" -> get_expression_type(s, n) = type
      [] n.t = "call" ->
            get_function(s, n.f) /\ s.function_map[n.f].return_type = type
      [] OTHER -> n.t = type

\* evaluate_expression: the type tests, then the evaluator of the type.
evaluate_expression(s) ==
    LET f == Top(s)
        n == f.n
        s1 == IF n.t = "id" THEN check_and_mark_identifier(s, n) ELSE s IN
    IF n.t = "id" /\ n.id \notin s1.checked THEN {ragequit(s1)}
    ELSE IF \E ty \in {"short", "float", "double"} : is_expression(s1, n, ty)
    THEN {}
    ELSE {SetTop(s1, Frame("evaluate_expression_int", n))}


----------------------------------------------------------------------------
(* Function calls and return. *)

\* The binding loop of enter_function_scope: the first count nodes of the
\* list as it is linked now take the argument values in order.
RECURSIVE BindParameters(_, _, _, _)
BindParameters(s, params, av, j) ==
    IF j > Len(av) THEN s
    ELSE LET p == params[j]
             s1 == add_variable_to_scope(s, p.name,
                       [variable_new EXCEPT !.var_type = p.type])
             s2 == set_variable(s1, p.name, av[j], p.type, p.is_const) IN
         BindParameters(s2, params, av, j + 1)

\* Declared positions of the parameters that took arguments 1, 2, ...
BoundPositions(params, count) == [j \in 1..count |-> params[j].pos]

enter_function_scope(s) ==
    LET f == Top(s)
        n == f.n
        params == s.function_map[n.f].parameters IN
    CASE f.pc = "start" ->
            LET rev == reverse_parameter_list(params) IN
            {SetTop([s EXCEPT !.function_map[n.f].parameters = rev],
                    [f EXCEPT !.pc = "args", !.i = 1,
                              !.cp = FirstParam(rev)])}
      [] f.pc = "args" /\ f.i <= Len(n.args) /\ f.cp # "NULL" ->
            LET type == params[ParamIndex(params, f.cp)].type IN
            IF type = "int"
            THEN {CallC(s, [f EXCEPT !.pc = "value"],
                        Frame("evaluate_expression_int", n.args[f.i]))}
            ELSE IF type = "string"
            THEN {ReturnV(yyerror(s, "String parameters are not supported"))}
            ELSE {}
      [] f.pc = "value" ->
            {SetTop(s, [f EXCEPT !.pc = "args", !.i = @ + 1,
                                 !.av = Append(@, s.acc),
                                 !.cp = NextParam(params, f.cp)])}
      [] f.pc = "args" /\ ~(f.i <= Len(n.args) /\ f.cp # "NULL") ->
            IF f.i <= Len(n.args) \/ f.cp # "NULL"
            THEN {ReturnV(yyerror(s,
                     "Mismatched number of arguments and parameters"))}
            ELSE
            LET s1 == [enter_scope(s) EXCEPT
                          !.scopes[Len(s.scopes) + 1].is_function_scope = TRUE]
                s2 == BindParameters(s1, params, f.av, 1)
                s3 == Emit(s2, <<"bind", BoundPositions(params, Len(f.av))>>)
            IN  {ReturnV([s3 EXCEPT !.function_map[n.f].parameters =
                             reverse_parameter_list(params)])}

execute_function_call(s) ==
    LET f == Top(s)
        n == f.n IN
    CASE f.pc = "start" /\ ~get_function(s, n.f) ->
            {ReturnV(yyerror(s, "Undefined function"))}
      [] f.pc = "start" /\ get_function(s, n.f) ->
            {CallC(s, [f EXCEPT !.pc = "entered", !.i = s.next_scope],
                   Frame("enter_function_scope", n))}
      [] f.pc = "entered" ->
            LET func == s.function_map[n.f]
                s1 == [s EXCEPT !.current_return_value.type = func.return_type,
                                !.current_return_value.has_value = FALSE]
                s2 == setjmp(PUSH_JUMP_BUFFER(s1)) IN
            {CallC(s2, [f EXCEPT !.pc = "body"],
                   Frame("ast_accept", func.body))}
      [] f.pc = "body" ->
            LET s1 == IF s.scopes # << >>
                         /\ s.scopes[Len(s.scopes)].is_function_scope
                      THEN exit_scope(s) ELSE s IN
            {ReturnV(POP_JUMP_BUFFER(s1))}
      [] f.pc = "jmp" -> {ReturnV(POP_JUMP_BUFFER(s))}

\* while (current_scope && !current_scope->is_function_scope) exit_scope();
RECURSIVE ExitBlockScopes(_)
ExitBlockScopes(s) ==
    IF s.scopes # << >> /\ ~s.scopes[Len(s.scopes)].is_function_scope
    THEN ExitBlockScopes(exit_scope(s))
    ELSE s

\* The end of handle_return_statement, after the value is stored.
ReturnUnwind(s) ==
    LET s1 == ExitBlockScopes(s) IN
    IF s1.jump_buffer # << >> THEN LONGJMP(exit_scope(s1))
    ELSE {ReturnV(s1)}

handle_return_statement(s) ==
    LET f == Top(s)
        expr == f.n
        s1 == Emit([s EXCEPT !.current_return_value.has_value = TRUE],
                   <<"return", 0>>) IN
    CASE f.pc = "start" /\ expr.t = "null" -> ReturnUnwind(s1)
      [] f.pc = "start" /\ expr.t # "null" ->
            IF s.current_return_value.type = "int"
            THEN {CallC(s1, [f EXCEPT !.pc = "value"],
                        Frame("evaluate_expression_int", expr))}
            ELSE IF s.current_return_value.type
                      \in {"float", "double", "bool", "short"}
            THEN {}
            ELSE {ragequit(yyerror(s1, "Unsupported return type"))}
      [] f.pc = "value" ->
            ReturnUnwind([s EXCEPT !.current_return_value.value = s.acc])


----------------------------------------------------------------------------
(* ast_accept and the visitor interpreter. *)

\* The handler returns from every state of S in which the run has not ended.
ThenReturn(S) == {IF x.status = "run" THEN ReturnV(x) ELSE x : x \in S}

interpreter_visit_identifier(s, n) ==
    IF Lookup(s, n.name) = 0 THEN yyerror(s, "Undefined variable") ELSE s

ast_accept(s) ==
    LET f == Top(s)
        n == f.n IN
    CASE n.t \in {"null", "int"} -> {ReturnV(s)}
      [] n.t = "id" -> {ReturnV(interpreter_visit_identifier(s, n))}
      [] n.t = "op" /\ f.pc = "start" ->
            {CallC(s, [f EXCEPT !.pc = "right"], Frame("ast_accept", n.l))}
      [] n.t = "op" /\ f.pc = "right" ->
            {CallC(s, [f EXCEPT !.pc = "visit"], Frame("ast_accept", n.r))}
      [] n.t = "op" /\ f.pc = "visit" -> {ReturnV(s)}
      [] n.t = "call" /\ f.i < Len(n.args) ->
            {CallC(s, [f EXCEPT !.i = @ + 1],
                   Frame("ast_accept", n.args[f.i + 1]))}
      [] n.t = "call" /\ f.i >= Len(n.args) ->
            {SetTop(s, Frame("interpreter_visit_function_call", n))}
      [] n.t = "unary" -> {SetTop(s, Frame("evaluate_expression_int", n))}
      [] n.t \in {"decl", "assign"} /\ f.pc = "start" /\ n.e.t = "unary" ->
            {SetTop(s, [f EXCEPT !.pc = "visit"])}
      [] n.t \in {"decl", "assign"} /\ f.pc = "start" /\ n.e.t # "unary" ->
            {CallC(s, [f EXCEPT !.pc = "visit"], Frame("ast_accept", n.e))}
      [] n.t \in {"return", "print"} /\ f.pc = "start" ->
            {CallC(s, [f EXCEPT !.pc = "visit"], Frame("ast_accept", n.e))}
      [] n.t = "dowhile" /\ f.pc = "start" ->
            {CallC(s, [f EXCEPT !.pc = "visit"], Frame("ast_accept", n.c))}
      [] n.t = "decl" /\ f.pc = "visit" ->
            {SetTop(s, Frame("interpreter_visit_declaration", n))}
      [] n.t = "assign" /\ f.pc = "visit" ->
            {SetTop(s, Frame("interpreter_visit_assignment", n))}
      [] n.t = "return" /\ f.pc = "visit" ->
            {SetTop(s, Frame("interpreter_visit_return_statement", n))}
      [] n.t = "print" /\ f.pc = "visit" ->
            {SetTop(s, Frame("interpreter_visit_print_statement", n))}
      [] n.t = "dowhile" /\ f.pc = "visit" ->
            {SetTop(s, Frame("interpreter_visit_do_while_statement", n))}
      [] n.t = "if" -> {SetTop(s, Frame("interpreter_visit_if_statement", n))}
      [] n.t = "for" -> {SetTop(s, Frame("interpreter_visit_for_statement", n))}
      [] n.t = "while" ->
            {SetTop(s, Frame("interpreter_visit_while_statement", n))}
      [] n.t = "switch" ->
            {SetTop(s, Frame("interpreter_visit_switch_statement", n))}
      [] n.t = "break" ->
            {SetTop(s, Frame("interpreter_visit_break_statement", n))}
      [] n.t = "fdef" ->
            {SetTop(s, Frame("interpreter_visit_function_definition", n))}
      [] n.t = "list" ->
            {SetTop(s, Frame("interpreter_visit_statement_list", n))}

interpreter_visit_function_call(s) ==
    {SetTop(s, Frame("execute_function_call", Top(s).n))}

interpreter_visit_statement_list(s) ==
    LET f == Top(s) IN
    IF f.i < Len(f.n.ss)
    THEN {CallC(s, [f EXCEPT !.i = @ + 1], Frame("ast_accept", f.n.ss[f.i + 1]))}
    ELSE {ReturnV(s)}

\* The initializer is stored through the Variable pointer taken before it is
\* evaluated (f.i: the scope that pointer leads into).  Nothing copies the
\* node's modifiers to the variable.
interpreter_visit_declaration(s) ==
    LET f == Top(s)
        n == f.n
        s1 == add_variable_to_scope(s, n.name,
                  [variable_new EXCEPT !.var_type = n.vt]) IN
    CASE f.pc = "start" /\ s1.status # "run" -> {s1}
      [] f.pc = "start" /\ s1.status = "run" /\ n.e.t = "null" -> {ReturnV(s1)}
      [] f.pc = "start" /\ s1.status = "run" /\ n.e.t # "null" ->
            IF n.vt = "int"
            THEN {CallC(s1, [f EXCEPT !.pc = "store",
                                      !.i = s1.scopes[Len(s1.scopes)].id],
                        Frame("evaluate_expression_int", n.e))}
            ELSE {}
      [] f.pc = "store" -> ThenReturn(StoreThrough(s, f.i, n.name, s.acc))

interpreter_visit_assignment(s) ==
    LET f == Top(s)
        n == f.n
        s1 == check_const_assignment(s, n.name)
        i == Lookup(s1, n.name) IN
    CASE f.pc = "start" /\ s1.status # "run" -> {s1}
      [] f.pc = "start" /\ s1.status = "run" /\ i = 0 ->
            {ReturnV(yyerror(s1, "Assignment to undefined variable"))}
      [] f.pc = "start" /\ s1.status = "run" /\ i # 0 ->
            IF s1.scopes[i].variables[n.name].var_type = "int"
                  /\ get_expression_type(s1, n.e) \notin {"float", "double"}
            THEN {CallC(s1, [f EXCEPT !.pc = "store", !.i = s1.scopes[i].id],
                        Frame("evaluate_expression_int", n.e))}
            ELSE {}
      [] f.pc = "store" -> ThenReturn(StoreThrough(s, f.i, n.name, s.acc))

interpreter_visit_if_statement(s) ==
    LET f == Top(s)
        n == f.n IN
    CASE f.pc = "start" ->
            {CallC(s, [f EXCEPT !.pc = "branch"],
                   Frame("evaluate_expression_int", n.c))}
      [] f.pc = "branch" /\ s.acc # 0 /\ n.th.t # "null" ->
            {SetTop(s, Frame("ast_accept", n.th))}
      [] f.pc = "branch" /\ s.acc = 0 /\ n.el.t # "null" ->
            {SetTop(s, Frame("ast_accept", n.el))}
      [] OTHER -> {ReturnV(s)}

interpreter_visit_break_statement(s) ==
    bruh(Emit(s, <<"break", Top(s).n.after>>))

interpreter_visit_return_statement(s) ==
    {SetTop(s, Frame("handle_return_statement", Top(s).n.e))}

interpreter_visit_function_definition(s) ==
    LET n == Top(s).n IN
    {ReturnV(create_function(s, n.name, n.rt, n.params, n.body))}

interpreter_visit_print_statement(s) ==
    LET f == Top(s) IN
    CASE f.pc = "start" /\ f.n.e.t = "null" -> {ReturnV(s)}
      [] f.pc = "start" /\ f.n.e.t # "null" ->
            {CallC(s, [f EXCEPT !.pc = "yap"],
                   Frame("evaluate_expression_int", f.n.e))}
      [] f.pc = "yap" -> {ReturnV(Emit(s, <<"print", s.acc>>))}

interpreter_visit_switch_statement(s) ==
    {SetTop(s, Frame("execute_switch_statement", Top(s).n))}


----------------------------------------------------------------------------
(* Loops of the visitor interpreter. *)

\* The condition of a loop is about to be evaluated.
EvalCond(s, f, pc) ==
    CallC(Emit(s, <<"cond", 0>>), [f EXCEPT !.pc = pc],
          Frame("evaluate_expression_int", f.n.c))

interpreter_visit_for_statement(s) ==
    LET f == Top(s)
        n == f.n IN
    CASE f.pc = "start" ->
            {CallC(enter_scope(setjmp(PUSH_JUMP_BUFFER(s))),
                   [f EXCEPT !.pc = "cond"], Frame("ast_accept", n.init))}
      [] f.pc = "cond" /\ n.c.t # "null" ->
            {EvalCond(enter_scope(s), f, "test")}
      [] f.pc = "cond" /\ n.c.t = "null" ->
            {CallC(enter_scope(s), [f EXCEPT !.pc = "incr"],
                   Frame("ast_accept", n.body))}
      [] f.pc = "test" /\ s.acc = 0 ->
            {ReturnV(POP_JUMP_BUFFER(exit_scope(exit_scope(s))))}
      [] f.pc = "test" /\ s.acc # 0 ->
            {CallC(s, [f EXCEPT !.pc = "incr"], Frame("ast_accept", n.body))}
      [] f.pc = "incr" ->
            {CallC(s, [f EXCEPT !.pc = "next"], Frame("ast_accept", n.incr))}
      [] f.pc = "next" -> {SetTop(exit_scope(s), [f EXCEPT !.pc = "cond"])}
      [] f.pc = "jmp" -> {ReturnV(POP_JUMP_BUFFER(s))}

interpreter_visit_while_statement(s) ==
    LET f == Top(s)
        n == f.n IN
    CASE f.pc = "start" ->
            {EvalCond(enter_scope(PUSH_JUMP_BUFFER(s)), f, "test")}
      [] f.pc = "test" /\ s.acc # 0 ->
            {CallC(enter_scope(setjmp(s)), [f EXCEPT !.pc = "next"],
                   Frame("ast_accept", n.body))}
      [] f.pc = "next" -> {EvalCond(exit_scope(s), f, "test")}
      [] f.pc = "test" /\ s.acc = 0 ->
            {ReturnV(POP_JUMP_BUFFER(exit_scope(s)))}
      [] f.pc = "jmp" -> {ReturnV(POP_JUMP_BUFFER(exit_scope(s)))}

interpreter_visit_do_while_statement(s) ==
    LET f == Top(s)
        n == f.n IN
    CASE f.pc = "start" ->
            {CallC(enter_scope(enter_scope(PUSH_JUMP_BUFFER(s))),
                   [f EXCEPT !.pc = "next"], Frame("ast_accept", n.body))}
      [] f.pc = "next" -> {EvalCond(exit_scope(s), f, "test")}
      [] f.pc = "test" /\ s.acc # 0 ->
            {CallC(enter_scope(setjmp(s)), [f EXCEPT !.pc = "next"],
                   Frame("ast_accept", n.body))}
      [] f.pc = "test" /\ s.acc = 0 ->
            {ReturnV(POP_JUMP_BUFFER(exit_scope(s)))}
      [] f.pc = "jmp" -> {ReturnV(POP_JUMP_BUFFER(exit_scope(s)))}

----------------------------------------------------------------------------
(* switch, and the statement executor that runs the case bodies. *)

\* A switch without fall-through: a case runs only on its own label.
case_selected_exact(case_value, switch_value, matched) ==
    case_value = switch_value

\* if (case_value == switch_value || matched)
case_selected(case_value, switch_value, matched) ==
    case_value = switch_value \/ matched

\* f.l is switch_value, f.m is matched, f.i counts the cases passed.
execute_switch_statement(s) ==
    LET f == Top(s)
        n == f.n
        cur == n.cases[f.i + 1] IN
    CASE f.pc = "start" ->
            {CallC(s, [f EXCEPT !.pc = "armed"],
                   Frame("evaluate_expression", n.e))}
      [] f.pc = "armed" ->
            {SetTop(setjmp(PUSH_JUMP_BUFFER(s)),
                    [f EXCEPT !.pc = "case", !.l = s.acc, !.m = FALSE])}
      [] f.pc = "case" /\ f.i >= Len(n.cases) ->
            {ReturnV(POP_JUMP_BUFFER(s))}
      [] f.pc = "case" /\ f.i < Len(n.cases) /\ cur.v.t # "null" ->
            {CallC(s, [f EXCEPT !.pc = "compare"],
                   Frame("evaluate_expression", cur.v))}
      [] f.pc = "compare" /\ case_selected(s.acc, f.l, f.m) ->
            {CallC(s, [f EXCEPT !.pc = "case", !.m = TRUE, !.i = @ + 1],
                   Frame("execute_statements", cur.ss))}
      [] f.pc = "compare" /\ ~case_selected(s.acc, f.l, f.m) ->
            {SetTop(s, [f EXCEPT !.pc = "case", !.i = @ + 1])}
      [] f.pc = "case" /\ f.i < Len(n.cases) /\ cur.v.t = "null" ->
            {CallC(s, [f EXCEPT !.pc = "end"],
                   Frame("execute_statements", cur.ss))}
      [] f.pc \in {"end", "jmp"} -> {ReturnV(POP_JUMP_BUFFER(s))}

\* The condition of a loop of the statement executor is about to be
\* evaluated.
EvaluateCond(s, f, pc) ==
    CallC(Emit(s, <<"cond", 0>>), [f EXCEPT !.pc = pc],
          Frame("evaluate_expression", f.n.c))

\* A condition that is false leaves the loop by break, before the
\* exit_scope that ends the iteration.
execute_for_statement(s) ==
    LET f == Top(s)
        n == f.n IN
    CASE f.pc = "start" ->
            {CallC(enter_scope(setjmp(PUSH_JUMP_BUFFER(s))),
                   [f EXCEPT !.pc = "cond"], Frame("execute_statement", n.init))}
      [] f.pc = "cond" /\ n.c.t # "null" ->
            {EvaluateCond(enter_scope(s), f, "test")}
      [] f.pc = "cond" /\ n.c.t = "null" ->
            {CallC(enter_scope(s), [f EXCEPT !.pc = "incr"],
                   Frame("execute_statement", n.body))}
      [] f.pc = "test" /\ s.acc = 0 ->
            {ReturnV(POP_JUMP_BUFFER(exit_scope(s)))}
      [] f.pc = "test" /\ s.acc # 0 ->
            {CallC(s, [f EXCEPT !.pc = "incr"],
                   Frame("execute_statement", n.body))}
      [] f.pc = "incr" ->
            {CallC(s, [f EXCEPT !.pc = "next"],
                   Frame("execute_statement", n.incr))}
      [] f.pc = "next" -> {SetTop(exit_scope(s), [f EXCEPT !.pc = "cond"])}
      [] f.pc = "jmp" -> {ReturnV(POP_JUMP_BUFFER(s))}

execute_while_statement(s) ==
    LET f == Top(s)
        n == f.n IN
    CASE f.pc = "start" ->
            {EvaluateCond(enter_scope(PUSH_JUMP_BUFFER(s)), f, "test")}
      [] f.pc = "test" /\ s.acc # 0 ->
            {CallC(enter_scope(setjmp(s)), [f EXCEPT !.pc = "next"],
                   Frame("execute_statement", n.body))}
      [] f.pc = "next" -> {EvaluateCond(exit_scope(s), f, "test")}
      [] f.pc = "test" /\ s.acc = 0 ->
            {ReturnV(POP_JUMP_BUFFER(exit_scope(s)))}
      [] f.pc = "jmp" -> {ReturnV(POP_JUMP_BUFFER(exit_scope(s)))}

execute_do_while_statement(s) ==
    LET f == Top(s)
        n == f.n IN
    CASE f.pc = "start" ->
            {CallC(enter_scope(enter_scope(PUSH_JUMP_BUFFER(s))),
                   [f EXCEPT !.pc = "next"],
                   Frame("execute_statement", n.body))}
      [] f.pc = "next" -> {EvaluateCond(exit_scope(s), f, "test")}
      [] f.pc = "test" /\ s.acc # 0 ->
            {CallC(enter_scope(setjmp(s)), [f EXCEPT !.pc = "next"],
                   Frame("execute_statement", n.body))}
      [] f.pc = "test" /\ s.acc = 0 ->
            {ReturnV(POP_JUMP_BUFFER(exit_scope(s)))}
      [] f.pc = "jmp" -> {ReturnV(POP_JUMP_BUFFER(exit_scope(s)))}

execute_statements(s) ==
    LET f == Top(s) IN
    CASE f.n.t = "null" -> {ReturnV(s)}
      [] f.n.t \notin {"null", "list"} ->
            {SetTop(s, Frame("execute_statement", f.n))}
      [] f.n.t = "list" /\ f.i < Len(f.n.ss) ->
            {CallC(s, [f EXCEPT !.i = @ + 1],
                   Frame("execute_statement", f.n.ss[f.i + 1]))}
      [] f.n.t = "list" /\ f.i >= Len(f.n.ss) -> {ReturnV(s)}

\* The declaration case, which falls into the assignment case.
DeclareThenAssign(s, n) ==
    IF n.t = "decl"
    THEN check_const_assignment(
             add_variable_to_scope(s, n.name, variable_new), n.name)
    ELSE check_const_assignment(s, n.name)

execute_statement(s) ==
    LET f == Top(s)
        n == f.n
        s1 == DeclareThenAssign(s, n)
        s2 == IF n.e.t = "id" THEN check_and_mark_identifier(s1, n.e) ELSE s1
    IN
    CASE n.t = "null" -> {ReturnV(s)}
      [] n.t \in {"decl", "assign"} /\ f.pc = "start" ->
            IF s1.status # "run" THEN {s1}
            ELSE IF n.e.t = "id" /\ n.e.id \notin s2.checked
            THEN {ragequit(s2)}
            ELSE IF \E ty \in {"float", "double", "string"} :
                        is_expression(s2, n.e, ty)
            THEN {}
            ELSE {CallC(s2, [f EXCEPT !.pc = "store"],
                        Frame("evaluate_expression_int", n.e))}
      [] n.t \in {"decl", "assign"} /\ f.pc = "store" ->
            {ReturnV(set_variable(s, n.name, s.acc, "int", n.is_const))}
      [] n.t = "call" -> {SetTop(s, Frame("execute_function_call", n))}
      [] n.t = "print" /\ f.pc = "start" ->
            {CallC(s, [f EXCEPT !.pc = "yap"],
                   Frame("evaluate_expression", n.e))}
      [] n.t = "print" /\ f.pc = "yap" ->
            {ReturnV(Emit(s, <<"print", s.acc>>))}
      [] n.t = "list" -> {SetTop(s, Frame("execute_statements", n))}
      [] n.t = "if" /\ f.pc = "start" ->
            {CallC(enter_scope(s), [f EXCEPT !.pc = "branch"],
                   Frame("evaluate_expression", n.c))}
      [] n.t = "if" /\ f.pc = "branch" ->
            {CallC(s, [f EXCEPT !.pc = "endif"],
                   Frame("execute_statement",
                         IF s.acc # 0 THEN n.th ELSE n.el))}
      [] n.t = "if" /\ f.pc = "endif" -> {ReturnV(exit_scope(s))}
      [] n.t = "for" -> {SetTop(s, Frame("execute_for_statement", n))}
      [] n.t = "while" -> {SetTop(s, Frame("execute_while_statement", n))}
      [] n.t = "dowhile" ->
            {SetTop(s, Frame("execute_do_while_statement", n))}
      [] n.t = "switch" -> {SetTop(s, Frame("execute_switch_statement", n))}
      [] n.t = "break" -> bruh(Emit(s, <<"break", n.after>>))
      [] n.t = "fdef" ->
            {ReturnV(create_function(s, n.name, n.rt, n.params, n.body))}
      [] n.t = "return" -> {SetTop(s, Frame("handle_return_statement", n.e))}


----------------------------------------------------------------------------
(* Start of the run. *)

\* Building a function definition node registers the function.
create_function_def_node(s, n) ==
    create_function(s, n.name, n.rt, n.params, n.body)

FunctionDefs(root) == SelectSeq(root.ss, LAMBDA x : x.t = "fdef")

\* The parser builds the definition nodes in source order, then the tree is
\* handed to interpret.
yyparse(s) ==
    LET f == Top(s)
        defs == FunctionDefs(f.n) IN
    IF f.i < Len(defs)
    THEN {SetTop(create_function_def_node(s, defs[f.i + 1]),
                 [f EXCEPT !.i = @ + 1])}
    ELSE {SetTop(s, Frame("interpret", f.n))}

interpret(s) ==
    LET f == Top(s) IN
    CASE f.pc = "start" ->
            {CallC(IF s.scopes = << >> THEN enter_scope(s) ELSE s,
                   [f EXCEPT !.pc = "end"], Frame("ast_accept", f.n))}
      [] f.pc = "end" -> {[s EXCEPT !.status = "done", !.kont = << >>]}


----------------------------------------------------------------------------
(* The source programs run.  Every program prints markers, so that the      *)
(* order of execution shows in the output.                                 *)

Loops == {"for", "while", "dowhile"}
Breakable == Loops \cup {"switch"}
Constructs == Breakable \cup {"if", "none"}

Program(kind, loc, k1, k2, leaf, n) ==
    [kind |-> kind, loc |-> loc, k1 |-> k1, k2 |-> k2, leaf |-> leaf, n |-> n]

\* Construct k at nesting level lv around the statements inner, followed by
\* its marker.  A loop runs n times unless it is left early; its counter is
\* i at level 1 and j at level 2.  Markers of level lv: 10*lv+1 at the start
\* of the body, 10*lv+2 at its end, 10*lv+3 after the construct.
Wrap(k, lv, n, inner) ==
    LET m == 10 * lv
        iv == IF lv = 1 THEN "i" ELSE "j"
        body == <<P(m + 1)>> \o inner \o <<P(m + 2)>>
        zero == Decl(iv, "int", FALSE, Lit(0))
        cond == Bin("<", Id(iv, m + 1), Lit(n))
        step == Assign(iv, Bin("+", Id(iv, m + 2), Lit(1)))
    IN
    CASE k = "for" -> <<For(zero, cond, step, List(body)), P(m + 3)>>
      [] k = "while" -> <<zero, While(cond, List(<<step>> \o body)), P(m + 3)>>
      [] k = "dowhile" ->
            <<zero, DoWhile(cond, List(<<step>> \o body)), P(m + 3)>>
      [] k = "switch" ->
            <<Switch(Lit(1), <<Case(Lit(1), List(body)),
                               Case(Lit(2), List(<<P(m + 4)>>))>>),
              P(m + 3)>>
      [] k = "if" -> <<If(Lit(1), List(body), NoNode), P(m + 3)>>
      [] k = "none" -> inner

\* The statement in the middle, and 99 after it, which must never print.
Leaf(p) ==
    CASE p.leaf = "break" ->
            <<Break(IF p.k2 \in Breakable THEN 23 ELSE 13), P(99)>>
      [] p.leaf = "return" -> <<Return(Lit(7)), P(99)>>
      [] OTHER -> << >>

\* k1 { k2 { leaf } }, at top level or as the body of f, which 98 ends.
ControlRoot(p) ==
    LET body == Wrap(p.k1, 1, p.n, Wrap(p.k2, 2, p.n, Leaf(p))) IN
    IF p.loc = "top"
    THEN List(<<P(1)>> \o body \o <<P(2)>>)
    ELSE List(<<FDef("f", "int", << >>, List(body \o <<P(98)>>)),
                P(1), Call("f", << >>), P(2)>>)

\* What a case body holds runs under the statement executor of src/ast.c,
\* loops included.
ControlPrograms ==
    {p \in {Program("control", loc, k1, k2, leaf, n) :
                loc \in {"top", "fun"}, k1 \in Constructs, k2 \in Constructs,
                leaf \in {"break", "return", "none"}, n \in 1..MaxIter} :
        /\ p.k1 = "none" => p.k2 = "none"
        /\ p.leaf = "break" => (p.k1 \in Breakable \/ p.k2 \in Breakable)
        /\ p.leaf = "return" => p.loc = "fun"
        /\ (p.k1 \notin Loops /\ p.k2 \notin Loops) => p.n = 1}

\* x = n; switch (x) { case 1: 41 [break] case 2: 42 default: 43 } 2
SwitchRoot(p) ==
    List(<<Decl("x", "int", FALSE, Lit(p.n)),
           Switch(Id("x", 1),
                  <<Case(Lit(1), List(<<P(41)>> \o
                        (IF p.leaf = "break" THEN <<Break(2)>> ELSE << >>))),
                    Case(Lit(2), List(<<P(42)>>)),
                    Case(NoNode, List(<<P(43)>>))>>),
           P(2)>>)

SwitchPrograms ==
    {Program("switch", "top", "switch", "none", leaf, n) :
        leaf \in {"break", "none"}, n \in 0..3}

\* const int k = 1; k = 2; print k; as statements of the program, or as
\* the statements of a case body.
ConstRoot(p) ==
    LET ss == <<Decl("k", "int", TRUE, Lit(1)), Assign("k", Lit(2)),
                Yapping(Id("k", 1))>> IN
    IF p.loc = "top"
    THEN List(ss \o <<P(2)>>)
    ELSE List(<<Switch(Lit(1), <<Case(Lit(1), List(ss))>>), P(2)>>)

ConstPrograms ==
    {Program("const", loc, "none", "none", "none", 1) : loc \in {"top", "case"}}

\* The parser links a parameter list from its last parameter to its first.
ParamsAB == <<Param("b", "int", 2), Param("a", "int", 1)>>

\* int g = 7; f(int a, int b) { 50; [print g | print a]; 51 }
\* called with n arguments 1, 2, ...
ArityRoot(p) ==
    LET read == IF p.leaf = "none" THEN << >>
                ELSE <<Yapping(Id(p.leaf, 1))>> IN
    List(<<FDef("f", "int", ParamsAB, List(<<P(50)>> \o read \o <<P(51)>>)),
           Decl("g", "int", FALSE, Lit(7)),
           P(1), Call("f", [i \in 1..p.n |-> Lit(i)]), P(2)>>)

ArityPrograms ==
    {Program("arity", "top", "none", "none", leaf, n) :
        leaf \in {"g", "a", "none"}, n \in 1..3}

\* int f(int a, int b) { print a; print b; return a; }
\* f(1, 2); or f(f(1, 2), 3);
NestRoot(p) ==
    LET inner == Call("f", <<Lit(1), Lit(2)>>) IN
    List(<<FDef("f", "int", ParamsAB,
                List(<<Yapping(Id("a", 1)), Yapping(Id("b", 2)),
                       Return(Id("a", 3))>>)),
           P(1),
           IF p.leaf = "nested" THEN Call("f", <<inner, Lit(3)>>) ELSE inner,
           P(2)>>)

NestPrograms ==
    {Program("nest", "top", "none", "none", leaf, 1) : leaf \in {"nested", "flat"}}

\* f() { 61 } f(int a) { 62 } f();
RedefRoot(p) ==
    List(<<FDef("f", "int", << >>, List(<<P(61)>>)),
           FDef("f", "int", <<Param("a", "int", 1)>>, List(<<P(62)>>)),
           P(1), Call("f", << >>), P(2)>>)

RedefPrograms == {Program("redef", "top", "none", "none", "none", 1)}

\* int x = 71; k1 { k2 { int x = 72; print x; } } print x;
\* at top level or, with the constructs as the body of f, around a call of f.
ShadowRoot(p) ==
    LET inner == <<Decl("x", "int", FALSE, Lit(72)), Yapping(Id("x", 81))>>
        body == Wrap(p.k1, 1, 1, Wrap(p.k2, 2, 1, inner))
        outer == Decl("x", "int", FALSE, Lit(71))
        after == <<Yapping(Id("x", 82)), P(2)>> IN
    IF p.loc = "top"
    THEN List(<<outer>> \o body \o after)
    ELSE List(<<FDef("f", "int", << >>, List(body)), outer,
                Call("f", << >>)>> \o after)

ShadowPrograms ==
    {p \in {Program("shadow", loc, k1, k2, "none", 1) :
                loc \in {"top", "fun"}, k1 \in Constructs, k2 \in Constructs} :
        /\ p.k1 = "none" => p.k2 = "none"
        /\ p.k2 # "none" => p.k1 = "switch"}

\* 1; k1 { k2 { return 7; 99 } } 2  as the statements of the program itself.
TopReturnPrograms ==
    {p \in {Program("topreturn", "top", k1, k2, "return", 1) :
                k1 \in Constructs, k2 \in Constructs} :
        p.k1 = "none" => p.k2 = "none"}

\* int g() { return 5; }  int f() { [g();] [return 3;] }  [g();] print f();
\* k1: f calls g; k2: g is called before f; leaf: f returns.
ReturnValueRoot(p) ==
    LET callg == <<Call("g", << >>)>>
        body == (IF p.k1 = "call" THEN callg ELSE << >>)
                    \o (IF p.leaf = "return" THEN <<Return(Lit(3))>> ELSE << >>)
    IN
    List(<<FDef("g", "int", << >>, List(<<Return(Lit(5))>>)),
           FDef("f", "int", << >>, List(body)), P(1)>>
         \o (IF p.k2 = "call" THEN callg ELSE << >>)
         \o <<Yapping(Call("f", << >>)), P(2)>>)

ReturnValuePrograms ==
    {Program("retval", "top", k1, k2, leaf, 1) :
        k1 \in {"call", "none"}, k2 \in {"call", "none"},
        leaf \in {"return", "none"}}

\* The right-hand sides with a side effect: a call of f, which prints 60 and
\* returns 3, and expressions that increment x.
SideEffect(leaf) ==
    CASE leaf = "f()" -> Call("f", << >>)
      [] leaf = "x++" -> Unary("x++", "x")
      [] leaf = "x++ + 1" -> Bin("+", Unary("x++", "x"), Lit(1))
      [] leaf = "++x + 1" -> Bin("+", Unary("++x", "x"), Lit(1))

\* int f() { 60; return 3; }  int x = 5;  int y = e;  or  int y = 0; y = e;
\* then print x; print y;
OnceRoot(p) ==
    LET e == SideEffect(p.leaf) IN
    List(<<FDef("f", "int", << >>, List(<<P(60), Return(Lit(3))>>)),
           P(1), Decl("x", "int", FALSE, Lit(5))>>
         \o (IF p.k1 = "decl" THEN <<Decl("y", "int", FALSE, e)>>
             ELSE <<Decl("y", "int", FALSE, Lit(0)), Assign("y", e)>>)
         \o <<Yapping(Id("x", 1)), Yapping(Id("y", 2)), P(2)>>)

OncePrograms ==
    {Program("once", "top", k1, "none", leaf, 1) :
        k1 \in {"decl", "assign"},
        leaf \in {"f()", "x++", "x++ + 1", "++x + 1"}}

\* 1; k1 { int t = 5; } 13; 2   or, with the statement in a case body,
\* 1; switch (1) { case 1: k2 { int t = 5; } 23; ... } 13; 2
LocalRoot(p) ==
    List(<<P(1)>>
         \o Wrap(p.k1, 1, p.n,
                 Wrap(p.k2, 2, p.n, <<Decl("t", "int", FALSE, Lit(5))>>))
         \o <<P(2)>>)

LocalPrograms ==
    {p \in {Program("local", "top", k1, k2, "none", n) :
                k1 \in Constructs, k2 \in Constructs, n \in 1..MaxIter} :
        /\ (p.k1 = "switch" /\ p.k2 \in Loops \cup {"if"})
              \/ (p.k1 \in Loops \cup {"if"} /\ p.k2 = "none")
        /\ (p.k1 \notin Loops /\ p.k2 \notin Loops) => p.n = 1}

\* The labels of the switch in source order, 0 for default: the default label
\* comes first, between the two cases, or last.
DefaultLabels(p) ==
    CASE p.leaf = "first" -> <<0, 1, 2>>
      [] p.leaf = "middle" -> <<1, 0, 2>>
      [] p.leaf = "last" -> <<1, 2, 0>>

\* The marker a case body prints: 41 for case 1, 42 for case 2, 43 for
\* default.
CaseMarker(label) == IF label = 0 THEN 43 ELSE 40 + label

\* int x = n; switch (x) { the three labels, each with its marker } 2
DefaultRoot(p) ==
    LET labels == DefaultLabels(p)
        case(label) == Case(IF label = 0 THEN NoNode ELSE Lit(label),
                            List(<<P(CaseMarker(label))>>)) IN
    List(<<Decl("x", "int", FALSE, Lit(p.n)),
           Switch(Id("x", 1), [i \in 1..3 |-> case(labels[i])]),
           P(2)>>)

DefaultPrograms ==
    {Program("default", "top", "switch", "none", leaf, n) :
        leaf \in {"first", "middle", "last"}, n \in 1..3}

\* int g() { return 5; }  1; [g();] print h(); 2   where nothing defines h.
UndefinedRoot(p) ==
    List(<<FDef("g", "int", << >>, List(<<Return(Lit(5))>>)), P(1)>>
         \o (IF p.k2 = "call" THEN <<Call("g", << >>)>> ELSE << >>)
         \o <<Yapping(Call("h", << >>)), P(2)>>)

UndefinedPrograms ==
    {Program("undefined", "top", "none", k2, "none", 1) :
        k2 \in {"call", "none"}}

\* const int k = 5;  ++k | k++ | --k | k--;  print k;  2
ConstIncRoot(p) ==
    List(<<Decl("k", "int", TRUE, Lit(5)), Unary(p.leaf, "k"),
           Yapping(Id("k", 1)), P(2)>>)

ConstIncPrograms ==
    {Program("constinc", "top", "none", "none", op, 1) : op \in UnaryOps}

Programs ==
    ControlPrograms \cup SwitchPrograms \cup ConstPrograms \cup ArityPrograms
        \cup NestPrograms \cup RedefPrograms \cup ShadowPrograms
        \cup TopReturnPrograms \cup ReturnValuePrograms \cup OncePrograms
        \cup LocalPrograms \cup DefaultPrograms \cup UndefinedPrograms
        \cup ConstIncPrograms

Root(p) ==
    CASE p.kind = "control" -> ControlRoot(p)
      [] p.kind = "switch" -> SwitchRoot(p)
      [] p.kind = "const" -> ConstRoot(p)
      [] p.kind = "arity" -> ArityRoot(p)
      [] p.kind = "nest" -> NestRoot(p)
      [] p.kind = "redef" -> RedefRoot(p)
      [] p.kind = "shadow" -> ShadowRoot(p)
      [] p.kind = "topreturn" -> ControlRoot(p)
      [] p.kind = "retval" -> ReturnValueRoot(p)
      [] p.kind = "once" -> OnceRoot(p)
      [] p.kind = "local" -> LocalRoot(p)
      [] p.kind = "default" -> DefaultRoot(p)
      [] p.kind = "undefined" -> UndefinedRoot(p)
      [] p.kind = "constinc" -> ConstIncRoot(p)

----------------------------------------------------------------------------
(* The specification. *)

Init ==
    /\ prog \in Programs
    /\ status = "run"
    /\ kont = <<Frame("yyparse", Root(prog))>>
    /\ acc = 0
    /\ scopes = << >>
    /\ next_scope = 1
    /\ jump_buffer = << >>
    /\ function_map = << >>
    /\ current_return_value = [type |-> "int", has_value |-> FALSE, value |-> 0]
    /\ checked = {}
    /\ log = << >>

\* The C function k is the one running.
Running(k) ==
    /\ status = "run"
    /\ kont # << >>
    /\ kont[Len(kont)].k = k

Do_yyparse ==
    /\ Running("yyparse")
    /\ \E s2 \in yyparse(State) : Install(s2)
Do_interpret ==
    /\ Running("interpret")
    /\ \E s2 \in interpret(State) : Install(s2)
Do_ast_accept ==
    /\ Running("ast_accept")
    /\ \E s2 \in ast_accept(State) : Install(s2)
Do_interpreter_visit_statement_list ==
    /\ Running("interpreter_visit_statement_list")
    /\ \E s2 \in interpreter_visit_statement_list(State) : Install(s2)
Do_interpreter_visit_declaration ==
    /\ Running("interpreter_visit_declaration")
    /\ \E s2 \in interpreter_visit_declaration(State) : Install(s2)
Do_interpreter_visit_assignment ==
    /\ Running("interpreter_visit_assignment")
    /\ \E s2 \in interpreter_visit_assignment(State) : Install(s2)
Do_interpreter_visit_if_statement ==
    /\ Running("interpreter_visit_if_statement")
    /\ \E s2 \in interpreter_visit_if_statement(State) : Install(s2)
Do_interpreter_visit_for_statement ==
    /\ Running("interpreter_visit_for_statement")
    /\ \E s2 \in interpreter_visit_for_statement(State) : Install(s2)
Do_interpreter_visit_while_statement ==
    /\ Running("interpreter_visit_while_statement")
    /\ \E s2 \in interpreter_visit_while_statement(State) : Install(s2)
Do_interpreter_visit_do_while_statement ==
    /\ Running("interpreter_visit_do_while_statement")
    /\ \E s2 \in interpreter_visit_do_while_statement(State) : Install(s2)
Do_interpreter_visit_switch_statement ==
    /\ Running("interpreter_visit_switch_statement")
    /\ \E s2 \in interpreter_visit_switch_statement(State) : Install(s2)
Do_interpreter_visit_break_statement ==
    /\ Running("interpreter_visit_break_statement")
    /\ \E s2 \in interpreter_visit_break_statement(State) : Install(s2)
Do_interpreter_visit_return_statement ==
    /\ Running("interpreter_visit_return_statement")
    /\ \E s2 \in interpreter_visit_return_statement(State) : Install(s2)
Do_interpreter_visit_function_definition ==
    /\ Running("interpreter_visit_function_definition")
    /\ \E s2 \in interpreter_visit_function_definition(State) : Install(s2)
Do_interpreter_visit_function_call ==
    /\ Running("interpreter_visit_function_call")
    /\ \E s2 \in interpreter_visit_function_call(State) : Install(s2)
Do_interpreter_visit_print_statement ==
    /\ Running("interpreter_visit_print_statement")
    /\ \E s2 \in interpreter_visit_print_statement(State) : Install(s2)
Do_execute_switch_statement ==
    /\ Running("execute_switch_statement")
    /\ \E s2 \in execute_switch_statement(State) : Install(s2)
Do_execute_for_statement ==
    /\ Running("execute_for_statement")
    /\ \E s2 \in execute_for_statement(State) : Install(s2)
Do_execute_while_statement ==
    /\ Running("execute_while_statement")
    /\ \E s2 \in execute_while_statement(State) : Install(s2)
Do_execute_do_while_statement ==
    /\ Running("execute_do_while_statement")
    /\ \E s2 \in execute_do_while_statement(State) : Install(s2)
Do_execute_statements ==
    /\ Running("execute_statements")
    /\ \E s2 \in execute_statements(State) : Install(s2)
Do_execute_statement ==
    /\ Running("execute_statement")
    /\ \E s2 \in execute_statement(State) : Install(s2)
Do_evaluate_expression ==
    /\ Running("evaluate_expression")
    /\ \E s2 \in evaluate_expression(State) : Install(s2)
Do_evaluate_expression_int ==
    /\ Running("evaluate_expression_int")
    /\ \E s2 \in evaluate_expression_int(State) : Install(s2)
Do_execute_function_call ==
    /\ Running("execute_function_call")
    /\ \E s2 \in execute_function_call(State) : Install(s2)
Do_enter_function_scope ==
    /\ Running("enter_function_scope")
    /\ \E s2 \in enter_function_scope(State) : Install(s2)
Do_handle_return_statement ==
    /\ Running("handle_return_statement")
    /\ \E s2 \in handle_return_statement(State) : Install(s2)

Next ==
    \/ Do_yyparse
    \/ Do_interpret
    \/ Do_ast_accept
    \/ Do_interpreter_visit_statement_list
    \/ Do_interpreter_visit_declaration
    \/ Do_interpreter_visit_assignment
    \/ Do_interpreter_visit_if_statement
    \/ Do_interpreter_visit_for_statement
    \/ Do_interpreter_visit_while_statement
    \/ Do_interpreter_visit_do_while_statement
    \/ Do_interpreter_visit_switch_statement
    \/ Do_interpreter_visit_break_statement
    \/ Do_interpreter_visit_return_statement
    \/ Do_interpreter_visit_function_definition
    \/ Do_interpreter_visit_function_call
    \/ Do_interpreter_visit_print_statement
    \/ Do_execute_switch_statement
    \/ Do_execute_for_statement
    \/ Do_execute_while_statement
    \/ Do_execute_do_while_statement
    \/ Do_execute_statements
    \/ Do_execute_statement
    \/ Do_evaluate_expression
    \/ Do_evaluate_expression_int
    \/ Do_execute_function_call
    \/ Do_enter_function_scope
    \/ Do_handle_return_statement

Spec == Init /\ [][Next]_vars

\* The events with the given tag, oldest first.
Events(tag) == SelectSeq(log, LAMBDA e : e[1] = tag)

----------------------------------------------------------------------------
(* Arrays.  SpecArr declares one array of int and accesses its elements.   *)

ArrayAccess(name, indices) ==
    [t |-> "array", name |-> name, indices |-> indices]

RECURSIVE Total(_, _)
Total(dimensions, i) ==
    IF i > Len(dimensions) THEN 1
    ELSE dimensions[i] * Total(dimensions, i + 1)

\* The variable becomes an array of total zeroed elements.
set_multi_array_variable(s, name, dimensions, is_const, type) ==
    LET i == Lookup(s, name) IN
    IF i = 0 THEN s
    ELSE [s EXCEPT !.scopes[i].variables[name] =
              [@ EXCEPT !.is_array = TRUE, !.is_const = is_const,
                        !.var_type = type, !.dimensions = dimensions,
                        !.array_data =
                            [c \in 1..Total(dimensions, 1) |-> 0]]]

\* An index is taken as out of bounds from the extent on.
out_of_bounds_above(index, size) == index < 0 \/ index > size

\* indices[i] < 0 || indices[i] >= var->array_dimensions.dimensions[i]
out_of_bounds(index, size) == index < 0 \/ index >= size

\* A product that starts one extent early, at the extent of the index itself.
RECURSIVE multiplier_inclusive(_, _, _)
multiplier_inclusive(dimensions, j, num_indices) ==
    IF j - 1 > num_indices THEN 1
    ELSE dimensions[j - 1] * multiplier_inclusive(dimensions, j + 1, num_indices)

\* The inner loop: the product of the extents j .. num_indices.
RECURSIVE multiplier(_, _, _)
multiplier(dimensions, j, num_indices) ==
    IF j > num_indices THEN 1
    ELSE dimensions[j] * multiplier(dimensions, j + 1, num_indices)

\* The outer loop from index i on (indices count from 1 here).
RECURSIVE OffsetFrom(_, _, _, _, _, _)
OffsetFrom(s, var, indices, num_indices, i, offset) ==
    IF i > num_indices THEN [s EXCEPT !.acc = offset]
    ELSE IF out_of_bounds(indices[i], var.dimensions[i])
    THEN ragequit(yyerror(s, "Array index out of bounds"))
    ELSE OffsetFrom(s, var, indices, num_indices, i + 1,
             offset + indices[i]
                        * multiplier(var.dimensions, i + 1, num_indices))

\* The offset is left in acc.  With a number of indices other than the number
\* of dimensions the smaller of the two is used.
calculate_array_offset(s, var, indices) ==
    LET num_dimensions == Len(var.dimensions)
        actual_indices == IF Len(indices) < num_dimensions
                          THEN Len(indices) ELSE num_dimensions IN
    IF ~var.is_array THEN [s EXCEPT !.acc = 0]
    ELSE IF Len(indices) # num_dimensions /\ actual_indices <= 0
    THEN [s EXCEPT !.acc = 0]
    ELSE OffsetFrom(s, var, indices, actual_indices, 1, 0)

\* The element pointer is left in acc, as the offset from array_data.  The
\* index expressions are literals: evaluate_expression_int gives their value.
evaluate_multi_array_access(s, node) ==
    LET i == Lookup(s, node.name)
        var == s.scopes[i].variables[node.name]
        indices == [k \in DOMAIN node.indices |-> node.indices[k].v] IN
    IF Len(node.indices) <= 0
    THEN ragequit(yyerror(s, "Invalid number of array indices"))
    ELSE IF i = 0 THEN ragequit(yyerror(s, "Variable is not defined"))
    ELSE IF ~var.is_array THEN ragequit(yyerror(s, "Variable is not an array"))
    ELSE calculate_array_offset(s, var, indices)

\* The storage of the array name: the elements an offset can address.
InBuffer(s, name, offset) ==
    offset + 1 \in DOMAIN s.scopes[Lookup(s, name)].variables[name].array_data

\* *element = value, in the array the pointer was taken from.  A pointer past
\* the storage is undefined behaviour: the store faults or lands elsewhere.
StoreElement(s, name, value) ==
    LET e == Emit(s, <<"element", s.acc>>) IN
    IF s.status # "run" THEN {s}
    ELSE IF ~InBuffer(s, name, s.acc) THEN {Crash(e), e}
    ELSE {[e EXCEPT
              !.scopes[Lookup(s, name)].variables[name].array_data[s.acc + 1] =
                  value]}

\* evaluate_expression_int on an array access: *(int *)element.
LoadElement(s, name) ==
    LET e == Emit(s, <<"element", s.acc>>) IN
    IF s.status # "run" THEN {s}
    ELSE IF ~InBuffer(s, name, s.acc) THEN {Crash(e), [e EXCEPT !.acc = 0]}
    ELSE {[e EXCEPT
              !.acc = s.scopes[Lookup(s, name)].variables[name]
                         .array_data[s.acc + 1]]}

\* The array branch of interpreter_visit_assignment.
AssignElement(s, node, value) ==
    LET i == Lookup(s, node.name) IN
    IF i = 0 THEN {yyerror(s, "Assignment to undefined array")}
    ELSE IF ~s.scopes[i].variables[node.name].is_array
    THEN {yyerror(s, "Variable is not an array")}
    ELSE StoreElement(evaluate_multi_array_access(s, node), node.name, value)

\* The array branch of execute_statement, after the const check.
ExecuteElementAssignment(s, node, value) ==
    LET s1 == check_const_assignment(s, node.name) IN
    IF s1.status # "run" THEN {s1}
    ELSE StoreElement(evaluate_multi_array_access(s1, node), node.name, value)

Ranks == {1, 2}

\* int arr[d0]; and int arr[d0][d1];
ArrayPrograms ==
    {[kind |-> "array", dims |-> d] :
        d \in UNION {[1..r -> 1..MaxExtent] : r \in Ranks}}

\* The index lists tried on an array of r dimensions.
IndexLists(r) == [1..r -> -1..MaxExtent]

Literals(idx) == [k \in DOMAIN idx |-> Lit(idx[k])]

Accesses == Len(Events("access"))

\* The declaration has created the variable; its dimensions are to be set.
InitArr ==
    /\ prog \in ArrayPrograms
    /\ status = "run"
    /\ kont = <<Frame("set_multi_array_variable", NoNode)>>
    /\ acc = 0
    /\ scopes = <<[create_scope(1) EXCEPT
                      !.variables = ("arr" :> variable_new)]>>
    /\ next_scope = 2
    /\ jump_buffer = << >>
    /\ function_map = << >>
    /\ current_return_value = [type |-> "int", has_value |-> FALSE, value |-> 0]
    /\ checked = {}
    /\ log = << >>

Do_set_multi_array_variable ==
    /\ Running("set_multi_array_variable")
    /\ Install(SetTop(set_multi_array_variable(State, "arr", prog.dims,
                                               FALSE, "int"),
                      Frame("statements", NoNode)))

\* A statement that reads arr[idx].
Do_LoadElement ==
    /\ Running("statements")
    /\ Accesses < MaxAccess
    /\ \E idx \in IndexLists(Len(prog.dims)) :
          LET node == ArrayAccess("arr", Literals(idx))
              s == Emit(State, <<"access", "read", idx, 0>>) IN
          \E s2 \in LoadElement(evaluate_multi_array_access(s, node), "arr") :
              Install(s2)

\* The statement arr[idx] = v, v the number of the access.
Do_AssignElement ==
    /\ Running("statements")
    /\ Accesses < MaxAccess
    /\ \E idx \in IndexLists(Len(prog.dims)) :
          LET node == ArrayAccess("arr", Literals(idx))
              v == Accesses + 1
              s == Emit(State, <<"access", "write", idx, v>>) IN
          \E s2 \in AssignElement(s, node, v) : Install(s2)

\* The same statement in a case body.
Do_ExecuteElementAssignment ==
    /\ Running("statements")
    /\ Accesses < MaxAccess
    /\ \E idx \in IndexLists(Len(prog.dims)) :
          LET node == ArrayAccess("arr", Literals(idx))
              v == Accesses + 1
              s == Emit(State, <<"access", "write", idx, v>>) IN
          \E s2 \in ExecuteElementAssignment(s, node, v) : Install(s2)

NextArr ==
    \/ Do_set_multi_array_variable
    \/ Do_LoadElement
    \/ Do_AssignElement
    \/ Do_ExecuteElementAssignment

SpecArr == InitArr /\ [][NextArr]_vars

----------------------------------------------------------------------------
(* Binary operations.  SpecOp evaluates one operation on two literal       *)
(* operands and goes on with the next statement.                           *)

NumericTypes == {"short", "int", "float", "double"}

\* A literal of a numeric type: NODE_SHORT, NODE_INT, NODE_FLOAT, NODE_DOUBLE.
Operand(type, value) == [t |-> type, v |-> value]

Magnitude(a) == IF a < 0 THEN -a ELSE a

\* C's / on integers: the quotient truncated toward zero.
c_div(a, b) ==
    LET q == Magnitude(a) \div Magnitude(b) IN
    IF (a < 0) # (b < 0) THEN -q ELSE q

\* C's % on integers: the remainder has the sign of the dividend.
c_mod(a, b) == a - b * c_div(a, b)

\* *(T *)result = value; return result;
Result(s, type, value) == ReturnC(s, [type |-> type, value |-> value])

Truth(b) == IF b THEN 1 ELSE 0

\* The operator switch of handle_binary_operation for promoted type int.
\* The operands tried stay far inside the range of int.
int_result(s, op, l, r) ==
    CASE op = "+" -> {Result(s, "int", l + r)}
      [] op = "*" -> {Result(s, "int", l * r)}
      [] op = "/" ->
            IF r = 0
            THEN {Result(yyerror(s, "Division by zero"), "int", 0)}
            ELSE {Result(s, "int", c_div(l, r))}
      [] op = "%" ->
            IF r = 0
            THEN {Result(yyerror(s, "Modulo by zero"), "int", 0)}
            ELSE {Result(s, "int", c_mod(l, r))}
      [] op = "<" -> {Result(s, "int", Truth(l < r))}

\* The same switch for promoted type short.  The % has no test of the
\* divisor: with a zero divisor the behaviour is undefined, the division
\* instruction traps or the remainder comes out as the dividend.
short_result(s, op, l, r) ==
    CASE op = "+" -> {Result(s, "short", to_short(l + r))}
      [] op = "*" -> {Result(s, "short", to_short(l * r))}
      [] op = "/" ->
            IF r = 0
            THEN {Result(yyerror(s, "Division by zero"), "short", 0)}
            ELSE {Result(s, "short", to_short(c_div(l, r)))}
      [] op = "%" ->
            IF r = 0
            THEN {Crash(s), Result(s, "short", l)}
            ELSE {Result(s, "short", to_short(c_mod(l, r)))}
      [] op = "<" -> {Result(s, "short", Truth(l < r))}

\* For float and double the operation is the IEEE one, with no test of the
\* divisor; its value is kept as the operation itself.
floating_result(s, type, op, l, r) ==
    {Result(s, type, [ieee |-> op, l |-> l, r |-> r])}

\* handle_binary_operation on the node of the running frame: the promoted
\* type, both operands evaluated in it, the operator applied.
handle_binary_operation(s) ==
    LET n == Top(s).n
        left_type == get_expression_type(s, n.l)
        right_type == get_expression_type(s, n.r)
        type == promoted_type(left_type, right_type)
        s1 == Emit(s, <<"promoted", type>>) IN
    CASE type = "int" -> int_result(s1, n.op, n.l.v, n.r.v)
      [] type = "short" -> short_result(s1, n.op, to_short(n.l.v),
                                        to_short(n.r.v))
      [] OTHER -> floating_result(s1, type, n.op, n.l.v, n.r.v)

\* The type as which evaluate_expression_int reads the result of
\* handle_binary_operation: the one get_expression_type reports for the node,
\* double when that is none of int and float.
int_consumer_reads(s, n) ==
    LET result_type == get_expression_type(s, n) IN
    IF result_type = "int" THEN "int"
    ELSE IF result_type = "float" THEN "float"
    ELSE "double"

\* The same for evaluate_expression_short, which has a branch for short.
short_consumer_reads(s, n) ==
    LET result_type == get_expression_type(s, n) IN
    IF result_type \in {"short", "float", "double"} THEN result_type
    ELSE "int"

\* Largest magnitude of an operand of SpecOp.
MaxOperand == 2

Operators == {"+", "*", "/", "%", "<"}

OperationPrograms ==
    {[kind |-> "operation", op |-> op,
      left |-> Operand(lt, lv), right |-> Operand(rt, rv)] :
        op \in Operators, lt \in NumericTypes, rt \in NumericTypes,
        lv \in -MaxOperand..MaxOperand, rv \in -MaxOperand..MaxOperand}

\* A statement holding the operation is about to evaluate it.
InitOp ==
    /\ prog \in OperationPrograms
    /\ status = "run"
    /\ kont = <<Frame("statements", NoNode),
                Frame("handle_binary_operation",
                      Bin(prog.op, prog.left, prog.right))>>
    /\ acc = 0
    /\ scopes = <<create_scope(1)>>
    /\ next_scope = 2
    /\ jump_buffer = << >>
    /\ function_map = << >>
    /\ current_return_value = [type |-> "int", has_value |-> FALSE, value |-> 0]
    /\ checked = {}
    /\ log = << >>

Do_handle_binary_operation ==
    /\ Running("handle_binary_operation")
    /\ \E s2 \in handle_binary_operation(State) : Install(s2)

\* The statement after the one that held the operation.
Do_NextStatement ==
    /\ Running("statements")
    /\ Install([Emit(State, <<"print", 2>>) EXCEPT
                   !.status = "done", !.kont = << >>])

NextOp ==
    \/ Do_handle_binary_operation
    \/ Do_NextStatement

SpecOp == InitOp /\ [][NextOp]_vars

----------------------------------------------------------------------------
(* Typed variables.  SpecVar declares a variable y and a variable x and    *)
(* runs statements that store into x.  A value of type float or double is  *)
(* counted in halves (5 stands for 2.5); a value of type int or short is   *)
(* the integer itself.  log holds the last statement and its diagnostics.  *)

\* (int)d and (int)f
truncate(h) == c_div(h, 2)

RECURSIVE floor_log2(_)
floor_log2(m) == IF m < 2 THEN 0 ELSE 1 + floor_log2(m \div 2)

RECURSIVE Pow2(_)
Pow2(k) == IF k = 0 THEN 1 ELSE 2 * Pow2(k - 1)

\* The 32 bits of the float h/2 read as an int: sign, exponent, fraction.
float_bits(h) ==
    LET m == Magnitude(h)
        k == floor_log2(m)
        bits == (k + 126) * Pow2(23) + (m - Pow2(k)) * Pow2(23 - k) IN
    IF h = 0 THEN 0
    ELSE IF h > 0 THEN bits
    ELSE bits - 2147483647 - 1

\* The low 32 bits of the double h/2 read as an int: the low end of the
\* fraction, which is zero for every value with a short binary expansion.
double_low_word(h) == 0

\* *(int *)handle_identifier(node, ..., 0): the member of the variable's type
\* read as an int.  A short leaves the upper half to what the storage held
\* before: zero, or the upper half of the same number stored as an int.
int_reads(var) ==
    CASE var.var_type = "int" -> {var.value}
      [] var.var_type = "short" -> {var.value, var.value % 65536}
      [] var.var_type = "float" -> {float_bits(var.value)}
      [] var.var_type = "double" -> {double_low_word(var.value)}

\* *(short *)handle_identifier(node, ..., 0)
short_reads(var) ==
    CASE var.var_type = "short" -> {var.value}
      [] var.var_type = "int" -> {to_short(var.value)}
      [] var.var_type = "float" -> {to_short(float_bits(var.value) % 65536)}
      [] var.var_type = "double" -> {double_low_word(var.value)}

\* handle_identifier with promotion to double (1) or to float (2).
promoted_read(var) ==
    IF var.var_type \in {"int", "short"} THEN from_int(var.value)
    ELSE var.value

\* evaluate_expression_int on a literal, an identifier or a ++/--.
evaluate_int(s, n) ==
    CASE n.t \in {"int", "short"} -> {Yield(s, n.v)}
      [] n.t = "float" ->
            {Yield(yyerror(s, "Cannot use float in integer context"),
                   truncate(n.v))}
      [] n.t = "double" ->
            {Yield(yyerror(s, "Cannot use double in integer context"),
                   truncate(n.v))}
      [] n.t = "id" -> {Yield(s, r) : r \in int_reads(Var(s, n.name))}
      [] n.t = "unary" ->
            {handle_unary_expression(s, n, r, "int") :
                r \in int_reads(Var(s, n.name))}

evaluate_short(s, n) ==
    CASE n.t = "int" -> {Yield(s, to_short(n.v))}
      [] n.t = "short" -> {Yield(s, n.v)}
      [] n.t = "float" ->
            {Yield(yyerror(s, "Cannot use float in integer context"),
                   to_short(truncate(n.v)))}
      [] n.t = "double" ->
            {Yield(yyerror(s, "Cannot use double in integer context"),
                   to_short(truncate(n.v)))}
      [] n.t = "id" -> {Yield(s, r) : r \in short_reads(Var(s, n.name))}
      [] n.t = "unary" ->
            {handle_unary_expression(s, n, r, "short") :
                r \in short_reads(Var(s, n.name))}

\* evaluate_expression_float and evaluate_expression_double: no case for a
\* short literal.
evaluate_floating(s, n, type) ==
    CASE n.t \in {"float", "double"} -> {Yield(s, n.v)}
      [] n.t = "int" -> {Yield(s, from_int(n.v))}
      [] n.t = "short" ->
            {Yield(yyerror(s, IF type = "float"
                              THEN "Invalid float expression"
                              ELSE "Invalid double expression"), 0)}
      [] n.t = "id" -> {Yield(s, promoted_read(Var(s, n.name)))}
      [] n.t = "unary" ->
            {handle_unary_expression(s, n, promoted_read(Var(s, n.name)),
                                     type)}

\* The evaluator the switch on a variable's type selects.
evaluate_as(s, n, type) ==
    CASE type = "int" -> evaluate_int(s, n)
      [] type = "short" -> evaluate_short(s, n)
      [] OTHER -> evaluate_floating(s, n, type)

\* scope_var->value.<member> = value
StoreValue(s, name, value) ==
    [s EXCEPT !.scopes[Lookup(s, name)].variables[name].value = value]

\* interpreter_visit_declaration on a declaration of a numeric type.
typed_declaration(s, name, type, e) ==
    LET s1 == add_variable_to_scope(s, name,
                  [variable_new EXCEPT !.var_type = type]) IN
    IF s1.status # "run" THEN {s1}
    ELSE {StoreValue(s2, name, s2.acc) : s2 \in evaluate_as(s1, e, type)}

\* interpreter_visit_assignment on an identifier of a numeric type.  An int
\* variable takes the bits of a float or double expression.
typed_assignment(s, name, e) ==
    LET s1 == check_const_assignment(s, name)
        type == Var(s1, name).var_type
        expr_type == get_expression_type(s1, e) IN
    IF s1.status # "run" THEN {s1}
    ELSE IF type = "int" /\ expr_type = "float"
    THEN {StoreValue(s2, name, float_bits(s2.acc)) :
             s2 \in evaluate_floating(s1, e, "float")}
    ELSE IF type = "int" /\ expr_type = "double"
    THEN {StoreValue(s2, name, double_low_word(s2.acc)) :
             s2 \in evaluate_floating(s1, e, "double")}
    ELSE {StoreValue(s2, name, s2.acc) : s2 \in evaluate_as(s1, e, type)}

\* The assignment case of execute_statement: the setter is chosen from the
\* value expression, and sets the type tag with the value.
legacy_assignment(s, name, e) ==
    LET s1 == check_const_assignment(s, name)
        is_const == Var(s1, name).is_const IN
    IF s1.status # "run" THEN {s1}
    ELSE IF e.t = "short"
    THEN {set_variable(s1, name, e.v, "short", is_const)}
    ELSE IF is_expression(s1, e, "float")
    THEN {set_variable(s2, name, s2.acc, "float", is_const) :
             s2 \in evaluate_floating(s1, e, "float")}
    ELSE IF is_expression(s1, e, "double")
    THEN {set_variable(s2, name, s2.acc, "double", is_const) :
             s2 \in evaluate_floating(s1, e, "double")}
    ELSE {set_variable(s2, name, s2.acc, "int", is_const) :
             s2 \in evaluate_int(s1, e)}

\* interpreter_visit_unary_operation: evaluate_expression_int(node).
interpreter_visit_unary_operation(s, n) == evaluate_int(s, n)

\* Number of statements after the declarations in a run of SpecVar.
MaxStores == 2

\* Literal values: as int or short the number itself, as float or double
\* the number of halves.
Values == {-5, 3, 6}

StorePrograms ==
    {[kind |-> "store", declared |-> [x |-> tx, y |-> ty], init |-> v] :
        tx \in NumericTypes, ty \in NumericTypes, v \in Values}

Expressions ==
    {Operand(t, v) : t \in NumericTypes, v \in Values} \cup {Id("y", 1)}

InitVar ==
    /\ prog \in StorePrograms
    /\ status = "run"
    /\ kont = <<Frame("statements", NoNode)>>
    /\ acc = 0
    /\ scopes = <<create_scope(1)>>
    /\ next_scope = 2
    /\ jump_buffer = << >>
    /\ function_map = << >>
    /\ current_return_value = [type |-> "int", has_value |-> FALSE, value |-> 0]
    /\ checked = {}
    /\ log = << >>

Declared(name) == name \in Names(scopes[1])

\* The state in which the statement st starts, after the n-th store.
Statement(st) ==
    [State EXCEPT !.log = <<st>>,
                  !.kont[1].i = IF Declared("x") THEN @ + 1 ELSE @]

\* y is declared with a literal of its own type, then x with any expression.
Do_typed_declaration ==
    /\ Running("statements")
    /\ ~Declared("x")
    /\ \E e \in Expressions :
          LET name == IF Declared("y") THEN "x" ELSE "y"
              type == prog.declared[name] IN
          /\ name = "y" => e = Operand(type, prog.init)
          /\ \E s2 \in typed_declaration(
                          Statement(<<"store", "declaration", name, e>>),
                          name, type, e) : Install(s2)

Do_typed_assignment ==
    /\ Running("statements")
    /\ Declared("x")
    /\ kont[1].i < MaxStores
    /\ \E e \in Expressions :
          \E s2 \in typed_assignment(
                       Statement(<<"store", "assignment", "x", e>>), "x", e) :
             Install(s2)

Do_legacy_assignment ==
    /\ Running("statements")
    /\ Declared("x")
    /\ kont[1].i < MaxStores
    /\ \E e \in Expressions :
          \E s2 \in legacy_assignment(
                       Statement(<<"store", "case body", "x", e>>), "x", e) :
             Install(s2)

Do_interpreter_visit_unary_operation ==
    /\ Running("statements")
    /\ Declared("x")
    /\ kont[1].i < MaxStores
    /\ \E op \in UnaryOps :
          LET n == Unary(op, "x") IN
          \E s2 \in interpreter_visit_unary_operation(
                       Statement(<<"unary", op, "x", n>>), n) :
             Install(s2)

NextVar ==
    \/ Do_typed_declaration
    \/ Do_typed_assignment
    \/ Do_legacy_assignment
    \/ Do_interpreter_visit_unary_operation

SpecVar == InitVar /\ [][NextVar]_vars

----------------------------------------------------------------------------
(* The if statement.  SpecIf runs one if statement whose branches are print *)
(* statements, under each of the three pieces of code that run an if: the  *)
(* traversal of src/visitor.c, the traversal of the later visitor.c with   *)
(* the handler of the interpreter, and the statement executor.             *)

\* The value of the condition: a literal or a comparison of two literals.
ConditionValue(c) ==
    IF c.t = "int" THEN c.v ELSE int_operation(c.op, c.l.v, c.r.v)

\* ast_accept on a branch: nothing for a missing branch, the print handler
\* for a print statement.
AcceptBranch(s, branch) ==
    IF branch.t = "print" THEN Emit(s, <<"print", branch.e.v>>) ELSE s

\* interpreter_visit_if_statement as one step: the condition, then ast_accept
\* on the branch it selects.
VisitIf(s, n) ==
    IF ConditionValue(n.c) # 0 THEN AcceptBranch(s, n.th)
    ELSE IF n.el.t # "null" THEN AcceptBranch(s, n.el)
    ELSE s

\* NODE_IF_STATEMENT in the ast_accept of src/visitor.c: the condition, the
\* then-branch and the else-branch are visited, then the handler is called.
AcceptIfTraversing(s, n) ==
    VisitIf(AcceptBranch(AcceptBranch(s, n.th), n.el), n)

\* NODE_IF_STATEMENT in the later ast_accept: the handler alone.
AcceptIf(s, n) == VisitIf(s, n)

\* NODE_IF_STATEMENT in execute_statement: a scope around the branch.
ExecuteIf(s, n) == exit_scope(VisitIf(enter_scope(s), n))

IfPaths == {"AcceptIfTraversing", "AcceptIf", "ExecuteIf"}

\* if (c) print 31; [else print 35;]
IfPrograms ==
    LET values == -MaxOperand..MaxOperand
        conds == {Lit(v) : v \in values}
                    \cup {Bin("<", Lit(a), Lit(b)) : a \in values, b \in values}
    IN  {[kind |-> "if", path |-> path,
          node |-> If(c, P(31), IF else THEN P(35) ELSE NoNode)] :
            path \in IfPaths, c \in conds, else \in BOOLEAN}

\* A statement list is about to run the if statement.
InitIf ==
    /\ prog \in IfPrograms
    /\ status = "run"
    /\ kont = <<Frame("statements", NoNode), Frame(prog.path, prog.node)>>
    /\ acc = 0
    /\ scopes = <<create_scope(1)>>
    /\ next_scope = 2
    /\ jump_buffer = << >>
    /\ function_map = << >>
    /\ current_return_value = [type |-> "int", has_value |-> FALSE, value |-> 0]
    /\ checked = {}
    /\ log = << >>

Do_AcceptIfTraversing ==
    /\ Running("AcceptIfTraversing")
    /\ Install(ReturnV(AcceptIfTraversing(State, kont[Len(kont)].n)))

Do_AcceptIf ==
    /\ Running("AcceptIf")
    /\ Install(ReturnV(AcceptIf(State, kont[Len(kont)].n)))

Do_ExecuteIf ==
    /\ Running("ExecuteIf")
    /\ Install(ReturnV(ExecuteIf(State, kont[Len(kont)].n)))

NextIf ==
    \/ Do_AcceptIfTraversing
    \/ Do_AcceptIf
    \/ Do_ExecuteIf
    \/ Do_NextStatement

SpecIf == InitIf /\ [][NextIf]_vars

----------------------------------------------------------------------------
(* Logical operators.  SpecLogic evaluates a && e or a || e, where a is an *)
(* int literal and e is a ++ or -- of the int variable x, under the        *)
(* evaluator of each type.                                                 *)

LogicalOps == {"&&", "||"}

Contexts == NumericTypes \cup {"bool"}

\* The left operand alone settles the value of the operation.
Decides(op, left) == IF op = "&&" THEN left = 0 ELSE left # 0

\* left && right and left || right on two values already computed.
Combine(op, left, right) ==
    IF op = "&&" THEN Truth(left # 0 /\ right # 0)
    ELSE Truth(left # 0 \/ right # 0)

\* The OP_AND and OP_OR cases of evaluate_expression_int: the right operand
\* is evaluated only when the left one leaves the value open.
logical_int(s, n) ==
    UNION {IF Decides(n.op, s1.acc)
           THEN {Yield(s1, Truth(n.op = "||"))}
           ELSE {Yield(s2, Combine(n.op, s1.acc, s2.acc)) :
                    s2 \in evaluate_int(s1, n.r)} :
           s1 \in evaluate_int(s, n.l)}

\* The OP_AND and OP_OR cases of evaluate_expression_short: both operands
\* are evaluated before the operator is looked at.
logical_short(s, n) ==
    UNION {{Yield(s2, Combine(n.op, s1.acc, s2.acc)) :
               s2 \in evaluate_short(s1, n.r)} :
           s1 \in evaluate_short(s, n.l)}

\* The message of handle_unary_expression for an operand type it has no
\* branch for.
InvalidType(op) ==
    CASE op = "++x" -> "Invalid type for pre-increment"
      [] op = "--x" -> "Invalid type for pre-decrement"
      [] op = "x++" -> "Invalid type for post-increment"
      [] op = "x--" -> "Invalid type for post-decrement"

\* evaluate_expression_bool on a numeric literal or on a ++/--: the latter
\* gets NULL from handle_unary_expression for VAR_BOOL and reads through it.
evaluate_bool(s, n) ==
    CASE n.t \in NumericTypes -> {Yield(s, Truth(n.v # 0))}
      [] n.t = "unary" -> {Crash(yyerror(s, InvalidType(n.op)))}

\* The OP_AND and OP_OR cases of evaluate_expression_bool.
logical_bool(s, n) ==
    UNION {IF Decides(n.op, s1.acc)
           THEN {Yield(s1, Truth(n.op = "||"))}
           ELSE {IF s2.status = "run"
                 THEN Yield(s2, Combine(n.op, s1.acc, s2.acc)) ELSE s2 :
                    s2 \in evaluate_bool(s1, n.r)} :
           s1 \in evaluate_bool(s, n.l)}

\* evaluate_expression_float and evaluate_expression_double have no case for
\* OP_AND and OP_OR: the operation goes to handle_binary_operation, which
\* evaluates both operands in the promoted type, int for the operands run
\* here, finds no case for the operator and returns NULL, which is read.
logical_floating(s, n) ==
    UNION {{Crash(yyerror(s2, "Unsupported binary operator")) :
               s2 \in evaluate_int(s1, n.r)} :
           s1 \in evaluate_int(s, n.l)}

LogicPrograms ==
    {[kind |-> "logic", op |-> op, left |-> a, right |-> u, context |-> c,
      x |-> v] :
        op \in LogicalOps, a \in -MaxOperand..MaxOperand, u \in UnaryOps,
        c \in Contexts, v \in Values}

\* x holds prog.x, and an expression of type context is about to be evaluated.
InitLogic ==
    /\ prog \in LogicPrograms
    /\ status = "run"
    /\ kont = <<Frame("statements", NoNode),
                Frame("logical",
                      Bin(prog.op, Lit(prog.left), Unary(prog.right, "x")))>>
    /\ acc = 0
    /\ scopes = <<[create_scope(1) EXCEPT !.variables =
                      "x" :> [variable_new EXCEPT !.value = prog.x]]>>
    /\ next_scope = 2
    /\ jump_buffer = << >>
    /\ function_map = << >>
    /\ current_return_value = [type |-> "int", has_value |-> FALSE, value |-> 0]
    /\ checked = {}
    /\ log = << >>

Do_logical_int ==
    /\ Running("logical")
    /\ prog.context = "int"
    /\ \E s2 \in logical_int(State, kont[Len(kont)].n) : Install(ReturnV(s2))

Do_logical_short ==
    /\ Running("logical")
    /\ prog.context = "short"
    /\ \E s2 \in logical_short(State, kont[Len(kont)].n) : Install(ReturnV(s2))

Do_logical_bool ==
    /\ Running("logical")
    /\ prog.context = "bool"
    /\ \E s2 \in logical_bool(State, kont[Len(kont)].n) : Install(ReturnV(s2))

Do_logical_floating ==
    /\ Running("logical")
    /\ prog.context \in {"float", "double"}
    /\ \E s2 \in logical_floating(State, kont[Len(kont)].n) :
          Install(ReturnV(s2))

NextLogic ==
    \/ Do_logical_int
    \/ Do_logical_short
    \/ Do_logical_bool
    \/ Do_logical_floating
    \/ Do_NextStatement

SpecLogic == InitLogic /\ [][NextLogic]_vars

----------------------------------------------------------------------------
(* Unary negation.  SpecNeg evaluates -e, with e a numeric literal, under  *)
(* the evaluator of each type.                                             *)

Neg(e) == [t |-> "neg", e |-> e]

\* The evaluator of a type on the operand.
evaluate_in(s, e, type) ==
    IF type = "bool" THEN evaluate_bool(s, e) ELSE evaluate_as(s, e, type)

\* The OP_NEG case of handle_unary_expression.
unary_negation(operand, operand_type) ==
    CASE operand_type = "int" -> 0 - operand
      [] operand_type = "short" -> Truth(operand = 0)
      [] operand_type \in {"float", "double"} -> 0 - operand
      [] operand_type = "bool" -> Truth(operand = 0)

\* The NODE_UNARY_OPERATION case of the evaluator of a type: the operand is
\* evaluated by the same evaluator and handed over with the evaluator's type.
evaluate_negation(s, n, type) ==
    {Yield(s1, unary_negation(s1.acc, type)) : s1 \in evaluate_in(s, n.e, type)}

NegPrograms ==
    {[kind |-> "neg", context |-> c, operand |-> Operand(t, v)] :
        c \in Contexts, t \in NumericTypes, v \in -MaxOperand..MaxOperand}

\* An expression of type context, the negation of a literal, is about to be
\* evaluated.
InitNeg ==
    /\ prog \in NegPrograms
    /\ status = "run"
    /\ kont = <<Frame("statements", NoNode),
                Frame("evaluate_negation", Neg(prog.operand))>>
    /\ acc = 0
    /\ scopes = <<create_scope(1)>>
    /\ next_scope = 2
    /\ jump_buffer = << >>
    /\ function_map = << >>
    /\ current_return_value = [type |-> "int", has_value |-> FALSE, value |-> 0]
    /\ checked = {}
    /\ log = << >>

Do_evaluate_negation ==
    /\ Running("evaluate_negation")
    /\ \E s2 \in evaluate_negation(State, kont[Len(kont)].n, prog.context) :
          Install(ReturnV(Emit(s2, <<"negated", prog.context>>)))

NextNeg ==
    \/ Do_evaluate_negation
    \/ Do_NextStatement

SpecNeg == InitNeg /\ [][NextNeg]_vars

----------------------------------------------------------------------------
(* Index counts.  SpecAccess declares the array of SpecArr and makes one   *)
(* access to it with fewer indices than it has dimensions, as many, or     *)
(* more.                                                                   *)

\* The index lists of one to three indices.
AnyIndexLists == UNION {[1..k -> -1..MaxExtent] : k \in 1..3}

FirstAccess == Running("statements") /\ Accesses = 0

\* A statement that reads arr[idx].
Do_LoadAny ==
    /\ FirstAccess
    /\ \E idx \in AnyIndexLists :
          LET node == ArrayAccess("arr", Literals(idx))
              s == Emit(State, <<"access", "read", idx, 0>>) IN
          \E s2 \in LoadElement(evaluate_multi_array_access(s, node), "arr") :
              Install(s2)

\* The statement arr[idx] = 1.
Do_AssignAny ==
    /\ FirstAccess
    /\ \E idx \in AnyIndexLists :
          LET node == ArrayAccess("arr", Literals(idx))
              s == Emit(State, <<"access", "write", idx, 1>>) IN
          \E s2 \in AssignElement(s, node, 1) : Install(s2)

\* The same statement in a case body.
Do_ExecuteAny ==
    /\ FirstAccess
    /\ \E idx \in AnyIndexLists :
          LET node == ArrayAccess("arr", Literals(idx))
              s == Emit(State, <<"access", "case body", idx, 1>>) IN
          \E s2 \in ExecuteElementAssignment(s, node, 1) : Install(s2)

NextAccess ==
    \/ Do_set_multi_array_variable
    \/ Do_LoadAny
    \/ Do_AssignAny
    \/ Do_ExecuteAny

SpecAccess == InitArr /\ [][NextAccess]_vars

----------------------------------------------------------------------------
(* Observations of a run. *)


\* The values printed so far, oldest first.
Printed == [i \in DOMAIN Events("print") |-> Events("print")[i][2]]

IsPrefix(a, b) == Len(a) <= Len(b) /\ SubSeq(b, 1, Len(a)) = a

\* What follows event i is the printing of v (nothing is asked of the last
\* event).
FollowedByPrint(i, v) ==
    i < Len(log) => (log[i + 1][1] = "print" /\ log[i + 1][2] = v)

Mismatch == "Mismatched number of arguments and parameters"

\* Frames of calls whose callee body is being executed.
InCallee ==
    {j \in DOMAIN kont :
        kont[j].k = "execute_function_call" /\ kont[j].pc = "body"}

Innermost(S) == CHOOSE j \in S : \A k \in S : k <= j

----------------------------------------------------------------------------
(* Scopes, break and return. *)

\* C1: a program whose loops, blocks, switches and calls hold an early break
\* or return ends with as many scopes popped as pushed: the scope stack is
\* back at the depth it had when the program started, the global scope alone.
C1_ScopesBalancedAtEnd ==
    (prog.kind = "control" /\ prog.leaf \in {"break", "return"}
        /\ status = "done")
    => Len(scopes) = 1

\* C2: once a return has executed inside a function body, at any depth of
\* loops, switches and ifs, no further statement of that body executes: what
\* runs next is the statement after the call, which prints 2.
C2_ReturnLeavesTheBody ==
    prog.kind = "control" =>
        \A i \in DOMAIN log :
            log[i][1] = "return" => FollowedByPrint(i, 2)

\* C3: a break ends exactly the innermost loop or switch around it: the run
\* goes on, and the next thing to happen is the statement after that
\* construct, with no condition evaluated in between.
C3_BreakLeavesInnermost ==
    prog.kind \in {"control", "switch"} =>
        \A i \in DOMAIN log :
            log[i][1] = "break" =>
                /\ FollowedByPrint(i, log[i][2])
                /\ status # "crash"

----------------------------------------------------------------------------
(* switch. *)

C4_Expected == IF prog.leaf = "break" THEN <<41, 2>> ELSE <<41, 42, 43, 2>>

\* C4: for switch (1) { case 1: A  case 2: B  default: C } the statements
\* A, B, C all execute, in that order, when none of them breaks; when A ends
\* with break, only A executes.  (A, B, C print 41, 42, 43; 2 follows the
\* switch.)
C4_SwitchFallThrough ==
    (prog.kind = "switch" /\ prog.n = 1) =>
        /\ status \in {"run", "done"}
        /\ IsPrefix(Printed, C4_Expected)
        /\ status = "done" => Printed = C4_Expected

C4_FellThrough ==
    /\ prog.kind = "switch" /\ prog.n = 1 /\ prog.leaf = "none"
    /\ status = "done"
    /\ Printed = <<41, 42, 43, 2>>

----------------------------------------------------------------------------
(* const. *)

----------------------------------------------------------------------------
(* Calls. *)

\* C6: while a callee body executes, an identifier read resolves only to a
\* scope created for that call (the function scope or one nested in it),
\* never to a scope of the caller's chain or to the global scope.
C6_LookupStaysInCallee ==
    (Running("evaluate_expression_int") /\ kont[Len(kont)].n.t = "id"
        /\ InCallee # {})
    => LET i == Lookup(State, kont[Len(kont)].n.name) IN
       i # 0 => scopes[i].id >= kont[Innermost(InCallee)].i

\* C7: a call with a number of arguments other than the number of parameters
\* is fatal: the run ends with the error, nothing executes after it.
C7_MismatchIsFatal ==
    \A i \in DOMAIN log :
        (log[i][1] = "error" /\ log[i][2] = Mismatch)
            => (i = Len(log) /\ status = "exit")

\* C8: in every call with as many arguments as parameters, argument i is
\* bound to the i-th declared parameter, also when an argument is itself a
\* call of the same function.
C8_PositionalBinding ==
    \A i \in DOMAIN log :
        log[i][1] = "bind" => log[i][2] = [j \in DOMAIN log[i][2] |-> j]

----------------------------------------------------------------------------
(* Array element access. *)

InRange(dims, idx) ==
    \A k \in DOMAIN dims : 0 <= idx[k] /\ idx[k] < dims[k]

\* (...(i0 * d1 + i1) * d2 + ...) + in-1
RECURSIVE RowMajor(_, _, _)
RowMajor(dims, idx, n) ==
    IF n = 0 THEN 0 ELSE RowMajor(dims, idx, n - 1) * dims[n] + idx[n]

\* Event i is a write whose indices are all in range.
AcceptedWrite(i) ==
    /\ log[i][1] = "access" /\ log[i][2] = "write"
    /\ InRange(prog.dims, log[i][3])

\* The cell (cells count from 1) the indices of event i address.
Cell(i) == RowMajor(prog.dims, log[i][3], Len(prog.dims)) + 1

\* The accepted writes that address cell c.
WritesTo(c) == {i \in DOMAIN log : AcceptedWrite(i) /\ Cell(i) = c}

\* C10: on an array of extents d0..dn-1 an access with n indices is accepted
\* exactly when 0 <= ik < dk for every k; an accepted access addresses the
\* row-major offset sum_k ik * prod_{j>k} dj; an access with an index out of
\* range ends the run with an error, a read as well as a write.
C10_RowMajorAccess ==
    prog.kind = "array" =>
        /\ \A i \in DOMAIN log :
              log[i][1] = "access" =>
                 /\ i < Len(log)
                 /\ IF InRange(prog.dims, log[i][3])
                    THEN /\ log[i + 1][1] = "element"
                         /\ log[i + 1][2] =
                               RowMajor(prog.dims, log[i][3], Len(prog.dims))
                    ELSE /\ log[i + 1][1] = "error"
                         /\ log[i + 1][2] = "Array index out of bounds"
                         /\ i + 1 = Len(log)
                         /\ status = "exit"
        /\ status = "exit" => log[Len(log)][1] = "error"
        /\ LET data == scopes[1].variables["arr"].array_data IN
           /\ \A i \in DOMAIN log : AcceptedWrite(i) => data[Cell(i)] # 0
           /\ \A c \in DOMAIN data :
                 data[c] # 0 => /\ WritesTo(c) # {}
                                /\ data[c] = log[Innermost(WritesTo(c))][4]

\* int arr[3][4]; arr[2][3] = 1; arr[2][3] read back from offset 11.
C10_LastElementOf3x4 ==
    /\ prog.kind = "array" /\ prog.dims = <<3, 4>>
    /\ status = "run"
    /\ Len(log) = 4
    /\ log[1] = <<"access", "write", <<2, 3>>, 1>>
    /\ log[2] = <<"element", 11>>
    /\ log[3] = <<"access", "read", <<2, 3>>, 0>>
    /\ log[4] = <<"element", 11>>
    /\ acc = 1

----------------------------------------------------------------------------
(* Operations and promotion. *)

\* The operation of the program has been evaluated, or has trapped.
Evaluated == prog.kind = "operation" /\ log # << >>

ZeroDivisor ==
    /\ prog.kind = "operation"
    /\ prog.op \in {"/", "%"}
    /\ prog.right.v = 0
    /\ prog.left.t \in {"short", "int"}
    /\ prog.right.t \in {"short", "int"}

\* C11: a division or a modulo with promoted type int or short and a zero
\* divisor evaluates to 0 and emits a diagnostic; the run neither traps nor
\* ends, and the next statement executes.
C11_ZeroDivisorYieldsZero ==
    (ZeroDivisor /\ Evaluated) =>
        /\ status \in {"run", "done"}
        /\ \E i \in DOMAIN log : log[i][1] = "error"
        /\ acc.value = 0
        /\ status = "done" => log[Len(log)] = <<"print", 2>>

\* Place of a numeric type in the order short < int < float < double.
Rank(type) ==
    CASE type = "short" -> 1
      [] type = "int" -> 2
      [] type = "float" -> 3
      [] type = "double" -> 4

Greater(t1, t2) == IF Rank(t1) >= Rank(t2) THEN t1 ELSE t2

\* C16: the promoted type of an operation on operands of types t1 and t2,
\* both among short, int, float and double, is the greater of the two in the
\* order short < int < float < double, and the same for (t1, t2) and (t2, t1).
C16_PromotionIsTheGreater ==
    Evaluated =>
        /\ log[1] = <<"promoted", Greater(prog.left.t, prog.right.t)>>
        /\ promoted_type(prog.left.t, prog.right.t) =
              promoted_type(prog.right.t, prog.left.t)

\* A short on the left and a double on the right were promoted to double.
C16_ShortWithDouble ==
    /\ Evaluated
    /\ prog.left.t = "short" /\ prog.right.t = "double"
    /\ log[1] = <<"promoted", "double">>
    /\ status = "done"

----------------------------------------------------------------------------
(* Typed variables. *)

\* C12: after any sequence of declarations, assignments, increments and
\* decrements every variable's type tag is the type it was declared with.
C12_TagIsDeclaredType ==
    prog.kind = "store" =>
        \A name \in Names(scopes[1]) :
            scopes[1].variables[name].var_type = prog.declared[name]

\* The type and the value of the expression a statement stores: a literal's
\* own, or those of y, which no statement changes.
SourceType(e) == IF e.t = "id" THEN prog.declared[e.name] ELSE e.t
SourceValue(e) ==
    IF e.t = "id" THEN scopes[1].variables[e.name].value ELSE e.v

\* The value v of type from, converted to the type to as C converts it.
Convert(v, from, to) ==
    LET integral == IF from \in {"float", "double"} THEN truncate(v) ELSE v IN
    CASE to \in {"float", "double"} ->
            IF from \in {"int", "short"} THEN from_int(v) ELSE v
      [] to = "int" -> integral
      [] to = "short" -> to_short(integral)

\* The last statement was a declaration or an assignment of the visitor
\* interpreter that stored a value of another numeric type into a variable
\* that carries its declared type.
StoredAcrossTypes ==
    /\ prog.kind = "store"
    /\ status = "run"
    /\ log # << >>
    /\ log[1][1] = "store"
    /\ log[1][2] \in {"declaration", "assignment"}
    /\ SourceType(log[1][4]) # prog.declared[log[1][3]]
    /\ scopes[1].variables[log[1][3]].var_type = prog.declared[log[1][3]]

\* C15: a declaration initializer or an assignment that stores a numeric value
\* into a variable of another declared numeric type stores the value converted
\* to the declared type: an int into a double reads back as the same number, a
\* float or a double into an int as its truncation.
C15_StoredValueIsConverted ==
    StoredAcrossTypes =>
        scopes[1].variables[log[1][3]].value =
            Convert(SourceValue(log[1][4]), SourceType(log[1][4]),
                    prog.declared[log[1][3]])

----------------------------------------------------------------------------
(* Declarations and scopes. *)

Redefinition == "Variable already exists in current scope"

\* A declaration is about to create its variable: the declaration handler of
\* the visitor interpreter, or the declaration case of the statement executor.
Declaring ==
    /\ status = "run"
    /\ kont # << >>
    /\ kont[Len(kont)].k \in {"interpreter_visit_declaration",
                              "execute_statement"}
    /\ kont[Len(kont)].n.t = "decl"
    /\ kont[Len(kont)].pc = "start"
    /\ scopes # << >>

InCurrentScope(name) == name \in Names(scopes[Len(scopes)])
InEnclosingScope(name) ==
    \E i \in 1..(Len(scopes) - 1) : name \in Names(scopes[i])

\* The x printed so far: 71 is the outer x, 72 the inner one.
PrintedX == SelectSeq(Printed, LAMBDA v : v \in {71, 72})

\* The declaration that is about to run ends the run with the redefinition
\* error when the current scope holds the name; when only an enclosing scope
\* holds it, the run goes on, the current scope holds the new variable and
\* the enclosing scopes are as they were.
DeclarationStep ==
    Declaring =>
        LET name == kont[Len(kont)].n.name IN
        IF InCurrentScope(name)
        THEN /\ status' = "exit"
             /\ log' = Append(log, <<"error", Redefinition>>)
        ELSE InEnclosingScope(name) =>
                /\ status' = "run"
                /\ Len(scopes') = Len(scopes)
                /\ name \in Names(scopes'[Len(scopes')])
                /\ \A i \in 1..(Len(scopes) - 1) : scopes'[i] = scopes[i]

\* In the programs that declare x twice, what is printed while the inner x is
\* live is the inner x, and the outer x holds the value it was declared with
\* (0 before its initializer is stored) until the end: printed after the
\* inner scope has gone, it is 71.
ShadowingObserved ==
    prog.kind = "shadow" =>
        /\ IsPrefix(PrintedX, <<72, 71>>)
        /\ status = "done" => PrintedX = <<72, 71>>
        /\ \A i \in DOMAIN scopes :
              (scopes[i].id = 1 /\ "x" \in Names(scopes[i]))
                  => scopes[i].variables["x"].value \in {0, 71}

\* C13: declaring a name that the current scope already holds is a fatal
\* redefinition error; declaring a name that only an enclosing scope holds
\* succeeds, the new variable shadows the outer one while its scope is live,
\* and the outer variable keeps its value.
C13_RedefinitionAndShadowing ==
    [][DeclarationStep]_vars /\ []ShadowingObserved

\* x was declared again in the body of a while loop and printed there, then
\* the outer x was printed after the loop.
C13_ShadowedInWhile ==
    /\ prog.kind = "shadow" /\ prog.loc = "top" /\ prog.k1 = "while"
    /\ status = "done"
    /\ PrintedX = <<72, 71>>

\* C14: a return executed outside any function, directly among the
\* statements of the program or inside a loop, a switch or an if there, ends
\* the run as a normal end: nothing executes after it (no output, no loop
\* condition, no diagnostic) and the run ends neither by an error exit nor by
\* a fault.
C14_TopLevelReturnEndsTheRun ==
    prog.kind = "topreturn" =>
        /\ status \in {"run", "done"}
        /\ \A i \in DOMAIN log : log[i][1] = "return" => i = Len(log)

----------------------------------------------------------------------------
(* The value of a call. *)

\* What print f() prints between the markers 1 and 2: the 3 that f returns,
\* or the default 0 when f ends without a return.
C17_Expected == <<1, IF prog.leaf = "return" THEN 3 ELSE 0, 2>>

\* C17: the value of the call f() is the value of the return that f itself
\* executed, and the default when f ends without executing one, whatever g
\* returned when it was called inside f or before f.
C17_CallYieldsOwnReturn ==
    prog.kind = "retval" =>
        /\ IsPrefix(Printed, C17_Expected)
        /\ status = "done" => Printed = C17_Expected

----------------------------------------------------------------------------
(* Side effects of a statement. *)

\* What the program prints when the right-hand side is evaluated once: 1,
\* the 60 of the one run of f, x, y, 2.
C18_Expected ==
    CASE prog.leaf = "f()" -> <<1, 60, 5, 3, 2>>
      [] prog.leaf = "x++" -> <<1, 6, 5, 2>>
      [] prog.leaf = "x++ + 1" -> <<1, 6, 6, 2>>
      [] prog.leaf = "++x + 1" -> <<1, 6, 7, 2>>

\* C18: a declaration or an assignment evaluates a call or a ++ in its
\* right-hand side exactly once: y = f() runs the body of f once, and
\* y = x++ + 1 leaves x greater by exactly 1.
C18_SideEffectsOnce ==
    prog.kind = "once" =>
        /\ IsPrefix(Printed, C18_Expected)
        /\ status = "done" => Printed = C18_Expected

----------------------------------------------------------------------------
(* Scopes of statements. *)

\* The if or the loop of the program: a statement of the program itself, or
\* a statement of a case body.
TestedStatement == IF prog.k1 = "switch" THEN prog.k2 ELSE prog.k1

\* The statement that follows the if or the loop has printed its marker.
StatementCompleted ==
    /\ prog.kind = "local"
    /\ \E i \in DOMAIN Printed :
          Printed[i] = (IF prog.k1 = "switch" THEN 23 ELSE 13)

\* What the statement declares inside: the local t of its body and, for a
\* for loop, the variable of its init clause.
DeclaredInside ==
    {"t"} \cup (IF TestedStatement = "for"
                THEN {IF prog.k1 = "switch" THEN "j" ELSE "i"}
                ELSE {})

\* C19: once an if, for, while or do-while statement has completed without
\* break or return, the current scope is the scope that was current before it
\* (here the global scope, the only one), and no variable declared inside
\* the statement is resolvable.
C19_ScopeRestoredAfterStatement ==
    StatementCompleted =>
        /\ Len(scopes) = 1
        /\ scopes[1].id = 1
        /\ \A name \in DeclaredInside : Lookup(State, name) = 0

----------------------------------------------------------------------------
(* The place of default in a switch. *)

\* Execution starts at label i: the label is the value switched on, or it is
\* default.
StartsAt(i) ==
    DefaultLabels(prog)[i] = 0 \/ DefaultLabels(prog)[i] = prog.n

FirstStart == CHOOSE i \in 1..3 : StartsAt(i) /\ \A j \in 1..(i - 1) : ~StartsAt(j)

\* The markers of the cases from the one execution starts at to the last,
\* then the 2 that follows the switch.
C20_Expected ==
    [i \in 1..(4 - FirstStart) |->
        CaseMarker(DefaultLabels(prog)[FirstStart + i - 1])] \o <<2>>

\* C20: execution of a switch starts at the first label in source order that
\* matches or is default, and from there the statements of every later case
\* execute in source order, those after the default label included, to the
\* end of the case list when nothing breaks.
C20_FallThroughPastDefault ==
    prog.kind = "default" =>
        /\ IsPrefix(Printed, C20_Expected)
        /\ status = "done" => Printed = C20_Expected

----------------------------------------------------------------------------
(* The if statement. *)

\* What the if statement of the program prints when exactly one branch runs
\* once: 31 for a condition that is not zero, otherwise 35 when there is an
\* else-branch.
C21_Expected ==
    IF ConditionValue(prog.node.c) # 0 THEN <<31>>
    ELSE IF prog.node.el.t # "null" THEN <<35>>
    ELSE << >>

\* C21: an if statement executes exactly one branch, once: the then-branch
\* when the condition is not zero, otherwise the else-branch when there is
\* one; nothing of the other branch executes.
C21_OneBranchOnce ==
    (prog.kind = "if" /\ Len(kont) < 2) =>
        /\ IsPrefix(C21_Expected, Printed)
        /\ Len(Printed) <= Len(C21_Expected) + 1
        /\ status = "done" => Printed = C21_Expected \o <<2>>

----------------------------------------------------------------------------
(* Jump buffers. *)

\* A break statement is about to call bruh().
BreakJumps ==
    /\ status = "run"
    /\ kont # << >>
    /\ \/ kont[Len(kont)].k = "interpreter_visit_break_statement"
       \/ /\ kont[Len(kont)].k = "execute_statement"
          /\ kont[Len(kont)].n.t = "break"

\* handle_return_statement has its value and is about to unwind to a
\* function scope and to jump.
ReturnJumps ==
    /\ status = "run"
    /\ kont # << >>
    /\ kont[Len(kont)].k = "handle_return_statement"
    /\ \/ kont[Len(kont)].pc = "value"
       \/ kont[Len(kont)].pc = "start" /\ kont[Len(kont)].n.t = "null"
    /\ jump_buffer # << >>
    /\ \E i \in DOMAIN scopes : scopes[i].is_function_scope

\* C22: when a break or a return is about to jump, the stack of jump buffers
\* is not empty and setjmp has filled its top buffer since the buffer was
\* pushed, also for a break in the first iteration of a do-while body.
C22_JumpTargetArmed ==
    (BreakJumps \/ ReturnJumps) =>
        /\ jump_buffer # << >>
        /\ jump_buffer[Len(jump_buffer)].armed

----------------------------------------------------------------------------
(* Undefined functions. *)

UndefinedFunction == "Undefined function"

\* C23: a call of a name that no definition and no built-in provides ends
\* the run with a failure status at the call: the diagnostic is the last
\* thing that happens, and the statement that holds the call prints no value.
C23_UndefinedCallIsFatal ==
    prog.kind = "undefined" =>
        \A i \in DOMAIN log :
            log[i] = <<"error", UndefinedFunction>>
                => (i = Len(log) /\ status = "exit")

\* C24: a && b and a || b short-circuit under the evaluator of every type:
\* when a alone settles the value, b is not evaluated, so the ++ or -- that
\* b holds leaves x as it was.
C24_ShortCircuitEverywhere ==
    (prog.kind = "logic" /\ Decides(prog.op, prog.left)) =>
        /\ scopes[1].variables["x"].value = prog.x
        /\ scopes[1].variables["x"].var_type = "int"
        /\ status # "crash"

\* C25: a ++ or -- of a const variable is rejected as a const violation and
\* the value the variable holds stays what its declaration gave it: the run
\* does not go on to its end, and k never holds anything but its 5 (0 before
\* its initializer is stored).
C25_ConstIncrementRejected ==
    prog.kind = "constinc" =>
        /\ \A i \in DOMAIN scopes :
              "k" \in Names(scopes[i]) =>
                  scopes[i].variables["k"].value \in {0, 5}
        /\ status # "done"

\* The statement that has just run is a ++ or -- of x.
UnaryStatementRan ==
    /\ kont' # kont
    /\ status' = "run"
    /\ Len(log') = 1
    /\ log'[1][1] = "unary"

\* One in the unit the values of a type are counted in.
UnitOf(type) == IF type \in {"int", "short"} THEN 1 ELSE from_int(1)

\* A ++ or -- statement on x moved the stored value by exactly one, left the
\* type of x alone and yielded the value after (prefix) or before (postfix).
UnaryStatementExact ==
    UnaryStatementRan =>
        LET op == log'[1][2]
            before == scopes[1].variables["x"]
            after == scopes'[1].variables["x"]
            delta == IF op \in Increments THEN UnitOf(before.var_type)
                     ELSE 0 - UnitOf(before.var_type) IN
        /\ after.var_type = before.var_type
        /\ after.value = before.value + delta
        /\ acc' = IF op \in {"++x", "--x"} THEN after.value ELSE before.value

\* C26: for x of any numeric type, ++x and --x yield the value after the
\* change, x++ and x-- the value before it, and the stored value of x moves
\* by exactly 1 either way.
C26_IncrementExact == [][UnaryStatementExact]_vars

\* The negation has been evaluated and its value is in acc.
Negated ==
    /\ prog.kind = "neg"
    /\ Len(kont) = 1
    /\ log # << >>
    /\ log[Len(log)][1] = "negated"

\* What the evaluator of the context makes of the operand itself.
OperandRead ==
    {s.acc : s \in evaluate_in([State EXCEPT !.log = << >>], prog.operand,
                               prog.context)}

\* C27: unary negation of an int, short, float or double operand yields its
\* arithmetic negation; only a bool operand yields the logical negation.
C27_NegationIsArithmetic ==
    Negated =>
        IF prog.context = "bool"
        THEN \E v \in OperandRead : acc = Truth(v = 0)
        ELSE \E v \in OperandRead : acc = 0 - v

\* The operation node SpecOp evaluates.
OperationNode == Bin(prog.op, prog.left, prog.right)

\* handle_binary_operation has returned a result.
ResultReturned ==
    /\ prog.kind = "operation"
    /\ status = "run"
    /\ Len(kont) = 1
    /\ log # << >>

\* C28: for every operator and every pair of operand types among short, int,
\* float and double, the type get_expression_type reports for the operation
\* is the promoted type the result is stored in, and the consumers of the
\* result read it as that type.
C28_ReportedTypeIsPromoted ==
    ResultReturned =>
        /\ get_expression_type(State, OperationNode) = acc.type
        /\ int_consumer_reads(State, OperationNode) = acc.type
        /\ short_consumer_reads(State, OperationNode) = acc.type

\* No call is in the middle of binding its arguments.
NoBindingInProgress ==
    \A i \in DOMAIN kont : kont[i].k # "enter_function_scope"

\* C29: after any call attempt, one that succeeds as well as one that fails
\* on the number of arguments, the parameter list stored for the function is
\* in the order it had before the call.
C29_ParameterOrderRestored ==
    (/\ prog.kind \in {"arity", "nest"}
     /\ "f" \in DOMAIN function_map
     /\ NoBindingInProgress) =>
        function_map["f"].parameters = ParamsAB

\* C30: every array element access that is accepted addresses a flattened
\* offset from 0 up to, not including, the total number of elements, whether
\* it has fewer indices than the array has dimensions, as many, or more; no
\* access reaches storage outside the array.
C30_OffsetWithinTotal ==
    prog.kind = "array" =>
        /\ \A i \in DOMAIN log :
              log[i][1] = "element" =>
                  /\ 0 <= log[i][2]
                  /\ log[i][2] < Total(prog.dims, 1)
        /\ status # "crash"

\* int arr[3][4]; arr[2] = 1; is accepted and stores at offset 2.
C30_OneIndexOf3x4 ==
    /\ prog.kind = "array" /\ prog.dims = <<3, 4>>
    /\ status = "run"
    /\ log = <<<<"access", "write", <<2>>, 1>>, <<"element", 2>>>>
    /\ scopes[1].variables["arr"].array_data[3] = 1

====
